---- MODULE Spec2Model ----
(***************************************************************************)
(* Model of the seed-search host of rasmodius: the WorkerPool              *)
(* (web/src/lib/workers/WorkerPool.ts) and the search workers              *)
(* (web/src/lib/workers/search.worker.ts) it coordinates.                  *)
(*                                                                         *)
(* The pool runs on the main thread, every worker on a thread of its own.  *)
(* Each thread is a JavaScript event loop: a handler runs to its next      *)
(* await without interruption, so one action of the model is one such run. *)
(* postMessage is an ordered channel in each direction.                    *)
(*                                                                         *)
(* A filter is represented by the set of seeds it accepts.  The search      *)
(* request is modelled as the type WorkerRequest declares it               *)
(* (search.worker.ts:12), the type the pool casts its message to: the      *)
(* field filter holds what the worker's loop evaluates.  The object        *)
(* literal in WorkerPool.search names that field filterJson                *)
(* (WorkerPool.ts:220) while the worker reads msg.filter                   *)
(* (search.worker.ts:291); the hand-over of the filter is a question of    *)
(* its own and is not part of the message protocol modelled here.          *)
(***************************************************************************)
EXTENDS Integers, Sequences, FiniteSets, TLC

\* ------------------------------------------------------------------ bounds
\* Seeds per progress report / yield of the worker loop.  The program uses
\* 10000 (search.worker.ts:246); the model runs the same loop with a small
\* chunk so that ranges of a few seeds span several chunks.
batchSize == 2

\* Inputs of the range partition checked on its own: worker counts 1..MaxN,
\* startSeed in 0..MaxStart, endSeed in 0..MaxEnd.
MaxN == 5
MaxStart == 3
MaxEnd == 12

\* ---------------------------------------------------------------- encoding
\* searchId / currentSearchId value null.
NoId == 0

\* The id '' carried by the error message of a failed init().
EmptyId == -1

\* The ids search() draws, in order: a later search may supersede the one before.
SearchIds == {1, 2}

\* Worker counts the pool is constructed with.
WorkerCounts == {1, 2}

WorkerIds == 1..2

\* The calls of search() offered: a seed range [startSeed, endSeed], the filter
\* as the set of seeds it accepts, and maxResults (the page's input has min 1).
\*  - five seeds, nothing matches: the workers run through all their chunks;
\*  - five seeds, three match, two wanted: the cap is reached and exceeded;
\*  - five seeds, two match, one wanted: a worker may be cancelled before its match;
\*  - one seed: with two workers the second is given no sub-range.
SearchInputs ==
  { [range |-> <<0, 4>>, filter |-> {}, maxResults |-> 1],
    [range |-> <<0, 4>>, filter |-> {1, 3, 4}, maxResults |-> 2],
    [range |-> <<0, 4>>, filter |-> {2, 3}, maxResults |-> 1],
    [range |-> <<0, 0>>, filter |-> {0}, maxResults |-> 1] }

\* ------------------------------------------------------------------- state
VARIABLES
  \* WorkerPool fields
  workerCount,      \* this.workerCount
  initCalled,       \* initialize() has been called
  workers,          \* this.workers.length; the Worker objects are 1..workers
  readyWorkers,     \* this.readyWorkers
  handler,          \* worker.onmessage of each Worker object: "none", "init", "search"
  searchId,         \* this.searchId
  callbacks,        \* id of the search whose callbacks are installed; NoId for {}
  totalSeeds,       \* this.totalSeeds
  maxResults,       \* this.maxResults
  checkedByWorker,  \* this.checkedByWorker
  foundByWorker,    \* this.foundByWorker
  allMatches,       \* this.allMatches
  completedWorkers, \* this.completedWorkers
  nextId,           \* the next value of crypto.randomUUID()
  \* worker threads
  alive,            \* the worker thread exists (not terminated)
  wasm,             \* module variable wasm is loaded
  currentSearchId,  \* module variable currentSearchId
  cancelled,        \* module variable cancelled
  tasks,            \* event-loop queue of the worker: messages and armed timers
  runs,             \* the invocations of search() in the worker, by search id
  outbox,           \* messages posted by the worker, not yet dispatched by the pool
  \* observations
  log,              \* per search: callbacks invoked and their arguments
  stopped,          \* searches the caller stopped: cancel(), superseding search(), terminate()
  lastCall,         \* the latest search() call: its outcome and the search it found running
  dropped,          \* ids of the messages the pool's handler returned on as stale
  evaluated,        \* per search: seeds evaluated by the workers
  reported,         \* per search: match messages posted by the workers
  \* arguments and result of a function of the program checked on its own
  \* (the range partition, the filter evaluators and converters)
  pIn, pOut,
  \* the page of +page.svelte in a browser tab
  route,            \* the component's variables: filter, activeTab, explorePanels, ...
  history,          \* the tab's session history: entries (URL and page.state) and position
  lastStep          \* observation: the latest step and what the page showed around it

poolVars == <<workerCount, initCalled, workers, readyWorkers, handler, searchId,
              callbacks, totalSeeds, maxResults, checkedByWorker, foundByWorker,
              allMatches, completedWorkers, nextId>>
workerVars == <<alive, wasm, currentSearchId, cancelled, tasks, runs, outbox>>
obsVars == <<log, stopped, lastCall, dropped, evaluated, reported>>
pureVars == <<pIn, pOut>>
navVars == <<route, history, lastStep>>
vars == <<poolVars, workerVars, obsVars, pureVars, navVars>>

\* ---------------------------------------------------------------- messages
InitReq == [type |-> "init"]
SearchReq(id, f, s, e, m) ==
  [type |-> "search", id |-> id, filter |-> f, startSeed |-> s, endSeed |-> e, maxResults |-> m]
CancelReq(id) == [type |-> "cancel", id |-> id]
\* The armed setTimeout(resolve, 0) of the run of search `id`.
Timer(id) == [type |-> "timer", id |-> id]

ReadyMsg == [type |-> "ready"]
ProgressMsg(id, c, f) == [type |-> "progress", id |-> id, checked |-> c, found |-> f]
MatchMsg(id, seed) == [type |-> "match", id |-> id, seed |-> seed]
CompleteMsg(id, c, ms) == [type |-> "complete", id |-> id, checked |-> c, matches |-> ms]
ErrorMsg(id) == [type |-> "error", id |-> id]

\* ----------------------------------------------------------------- helpers
RECURSIVE SumOver(_, _)
SumOver(f, S) ==
  IF S = {} THEN 0
  ELSE LET x == CHOOSE y \in S : TRUE IN f[x] + SumOver(f, S \ {x})

\* Array.prototype.sort((a, b) => a - b), as an insertion sort.
RECURSIVE InsertAsc(_, _)
InsertAsc(x, s) ==
  IF s = <<>> THEN <<x>>
  ELSE IF x <= Head(s) THEN <<x>> \o s
  ELSE <<Head(s)>> \o InsertAsc(x, Tail(s))

RECURSIVE SortAsc(_)
SortAsc(s) == IF s = <<>> THEN <<>> ELSE InsertAsc(Head(s), SortAsc(Tail(s)))

\* Array.prototype.slice(0, n) for n >= 0.
Slice0(s, n) == IF n >= Len(s) THEN s ELSE SubSeq(s, 1, n)

NoLog == [onMatch |-> 0, onProgress |-> 0, onComplete |-> 0, onError |-> 0,
          delivered |-> <<>>, finalChecked |-> 0, finalFound |-> 0, cap |-> 0]

NoCall == [outcome |-> "none", prev |-> NoId, prevAtCap |-> FALSE]

\* --------------------------------------------------- WorkerPool.search: split
\* Variant of seedsPerWorker: the quotient is rounded down.
seedsPerWorkerFloor(total, n) == total \div n

\* Math.ceil(totalSeeds / n) for n >= 1.
seedsPerWorker(total, n) == -((-total) \div n)

\* Worker objects are numbered from 1; the array index is w - 1.
workerStart(startSeed, w, spw) == startSeed + (w - 1) * spw

workerEnd(startSeed, endSeed, w, spw) ==
  LET last == workerStart(startSeed, w, spw) + spw - 1
  IN IF last < endSeed THEN last ELSE endSeed

\* The worker is given a sub-range (else it counts as completed at once).
hasWork(startSeed, endSeed, w, spw) == workerStart(startSeed, w, spw) <= endSeed

\* The search messages search() posts to Worker object w (none or one).
searchPosts(id, f, startSeed, endSeed, max, n, w) ==
  LET spw == seedsPerWorker(endSeed - startSeed + 1, n)
  IN IF hasWork(startSeed, endSeed, w, spw)
     THEN <<SearchReq(id, f, workerStart(startSeed, w, spw),
                      workerEnd(startSeed, endSeed, w, spw), max)>>
     ELSE <<>>

\* ------------------------------------------------------- worker: search loop
\* evaluateGroup(seed, filter, version) for a filter given by the seeds it accepts.
evaluateGroup(seed, filter) == seed \in filter

ReadyRun == [status |-> "ready", startSeed |-> 0, seed |-> 0, endSeed |-> 0,
             matches |-> <<>>, checked |-> 0,
             maxResults |-> 0, filter |-> {}, exit |-> "none",
             cancelPosted |-> FALSE, further |-> 0, completes |-> 0, late |-> 0]

\* Variant of startRun: the loop starts one seed after startSeed.
startRunSkipFirst(msg) ==
  [ReadyRun EXCEPT !.status = "running", !.startSeed = msg.startSeed,
                   !.seed = msg.startSeed + 1, !.endSeed = msg.endSeed,
                   !.maxResults = msg.maxResults, !.filter = msg.filter]

\* The local state of search() after lines 243-247 and the loop's initialiser.
startRun(msg) ==
  [ReadyRun EXCEPT !.status = "running", !.startSeed = msg.startSeed,
                   !.seed = msg.startSeed, !.endSeed = msg.endSeed,
                   !.maxResults = msg.maxResults, !.filter = msg.filter]

\* Variant of loopCondition: the last seed of the range is left out.
loopConditionShort(r, c) == r.seed < r.endSeed /\ Len(r.matches) < r.maxResults /\ ~c

\* The condition of the for loop.
loopCondition(r, c) == r.seed <= r.endSeed /\ Len(r.matches) < r.maxResults /\ ~c

\* Which of the three conjuncts of the loop condition ended the loop.
exitReason(r, c) ==
  IF r.seed > r.endSeed THEN "exhausted"
  ELSE IF Len(r.matches) >= r.maxResults THEN "limit_reached"
  ELSE "cancelled"

\* The progress report and yield after every batchSize-th seed.
atBatchEnd(checked) == checked % batchSize = 0

\* One uninterrupted stretch of the loop: from its start or from the resumption
\* after the await, to the next await or to the complete message.
\* r: the locals of search(); c: the module variable cancelled; out: the
\* messages posted so far in this stretch; n: the seeds evaluated so far in it.
RECURSIVE runLoop(_, _, _, _, _)
runLoop(id, r, c, out, n) ==
  IF loopCondition(r, c)
  THEN LET hit == evaluateGroup(r.seed, r.filter)
           ms == IF hit THEN Append(r.matches, r.seed) ELSE r.matches
           o1 == IF hit THEN Append(out, MatchMsg(id, r.seed)) ELSE out
           ch == r.checked + 1
           r1 == [r EXCEPT !.matches = ms, !.checked = ch, !.seed = r.seed + 1]
       IN IF atBatchEnd(ch)
          THEN [run |-> r1, out |-> Append(o1, ProgressMsg(id, ch, Len(ms))),
                n |-> n + 1, yielded |-> TRUE]
          ELSE runLoop(id, r1, c, o1, n + 1)
  ELSE [run |-> [r EXCEPT !.status = "done", !.exit = exitReason(r, c)],
        out |-> Append(out, CompleteMsg(id, r.checked, r.matches)),
        n |-> n, yielded |-> FALSE]

RECURSIVE CountType(_, _)
CountType(s, t) ==
  IF s = <<>> THEN 0
  ELSE (IF Head(s).type = t THEN 1 ELSE 0) + CountType(Tail(s), t)

\* The observations kept with a run, updated for one stretch of the loop.
observeRun(before, res) ==
  [res.run EXCEPT
     !.further = IF before.cancelPosted /\ res.n > 0 THEN @ + 1 ELSE @,
     !.completes = @ + CountType(res.out, "complete"),
     !.late = IF before.completes > 0
              THEN @ + CountType(res.out, "match") + CountType(res.out, "progress")
              ELSE @]

\* ------------------------------------------------------ worker: event loop
RemoveAt(s, i) == SubSeq(s, 1, i - 1) \o SubSeq(s, i + 1, Len(s))

\* Task i of the queue may run next: messages are taken in arrival order, and
\* a timer does not run before a message that was queued when it was armed.
eligible(q, i) ==
  /\ i \in 1..Len(q)
  /\ \A j \in 1..(i - 1) : q[j].type = "timer"

\* The outcome of one stretch of the run of search `id` in worker w:
\* shared by the start of a search and by its resumption from the timer.
runStretch(w, id, r, c, rest, starting) ==
  LET res == runLoop(id, r, c, <<>>, 0)
  IN /\ runs' = [runs EXCEPT ![w][id] = observeRun(r, res)]
     /\ outbox' = [outbox EXCEPT ![w] = @ \o res.out]
     /\ tasks' = [tasks EXCEPT ![w] = IF res.yielded THEN Append(rest, Timer(id)) ELSE rest]
     /\ currentSearchId' = [currentSearchId EXCEPT ![w] =
                              IF ~res.yielded THEN NoId ELSE IF starting THEN id ELSE @]
     /\ evaluated' = [evaluated EXCEPT ![id] = @ + res.n]
     /\ reported' = [reported EXCEPT ![id] = @ + CountType(res.out, "match")]

\* case 'init': await init()
WorkerInit(w, rest) ==
  /\ \/ /\ wasm' = [wasm EXCEPT ![w] = TRUE]
        /\ outbox' = [outbox EXCEPT ![w] = Append(@, ReadyMsg)]
     \/ /\ wasm' = wasm
        /\ outbox' = [outbox EXCEPT ![w] = Append(@, ErrorMsg(EmptyId))]
  /\ tasks' = [tasks EXCEPT ![w] = rest]
  /\ UNCHANGED <<currentSearchId, cancelled, runs, evaluated, reported>>

\* case 'search': await search(...), up to its first await or its end
WorkerSearch(w, msg, rest) ==
  IF ~wasm[w]
  THEN /\ outbox' = [outbox EXCEPT ![w] = Append(@, ErrorMsg(msg.id))]
       /\ tasks' = [tasks EXCEPT ![w] = rest]
       /\ UNCHANGED <<wasm, currentSearchId, cancelled, runs, evaluated, reported>>
  ELSE /\ cancelled' = [cancelled EXCEPT ![w] = FALSE]
       /\ runStretch(w, msg.id, startRun(msg), FALSE, rest, TRUE)
       /\ UNCHANGED wasm

\* case 'cancel'
WorkerCancel(w, msg, rest) ==
  /\ cancelled' = [cancelled EXCEPT ![w] = IF currentSearchId[w] = msg.id THEN TRUE ELSE @]
  /\ tasks' = [tasks EXCEPT ![w] = rest]
  /\ UNCHANGED <<wasm, currentSearchId, runs, outbox, evaluated, reported>>

\* The timer of the await fires: search() resumes after line 267.
WorkerResume(w, id, rest) ==
  /\ runs[w][id].status = "running"
  /\ runStretch(w, id, runs[w][id], cancelled[w], rest, FALSE)
  /\ UNCHANGED <<wasm, cancelled>>

\* The worker's event loop runs task i of its queue.
WorkerStep(w, i) ==
  /\ alive[w]
  /\ eligible(tasks[w], i)
  /\ LET tk == tasks[w][i]
         rest == RemoveAt(tasks[w], i)
     IN CASE tk.type = "init" -> WorkerInit(w, rest)
          [] tk.type = "search" -> WorkerSearch(w, tk, rest)
          [] tk.type = "cancel" -> WorkerCancel(w, tk, rest)
          [] tk.type = "timer" -> WorkerResume(w, tk.id, rest)
  /\ UNCHANGED <<poolVars, alive, log, stopped, lastCall, dropped, pureVars, navVars>>

\* ------------------------------------------------------------- WorkerPool
\* worker.postMessage({type: 'cancel', id}) for every Worker object.
cancelPosts(id) ==
  [w \in WorkerIds |-> IF w <= workers THEN Append(tasks[w], CancelReq(id)) ELSE tasks[w]]

\* Observation: a cancel for search `id` was posted to a worker running it.
markCancel(id) ==
  [w \in WorkerIds |->
     IF w <= workers /\ runs[w][id].status = "running"
     THEN [runs[w] EXCEPT ![id].cancelPosted = TRUE]
     ELSE runs[w]]

\* Variant of trimmed: the matches are sorted but not cut to maxResults.
trimmedNoSlice(ms, max) == SortAsc(ms)

\* Sort matches and trim to maxResults.
trimmed(ms, max) == Slice0(SortAsc(ms), max)

totalChecked(cbw) == SumOver(cbw, WorkerIds)

\* finishSearch(), with the fields the caller has just updated passed in.
finishSearch(lg, ms, max, cbw, cb) ==
  LET final == trimmed(ms, max)
  IN /\ allMatches' = final
     /\ log' = IF cb = NoId THEN lg
               ELSE [lg EXCEPT ![cb].onProgress = @ + 1,
                                ![cb].finalChecked = totalChecked(cbw),
                                ![cb].finalFound = Len(final),
                                ![cb].onComplete = @ + 1,
                                ![cb].delivered = final]
     /\ searchId' = NoId

\* Variant of stale: the handler does not compare ids.
staleNever(msg) == FALSE

\* if (msg.id !== this.searchId) return
stale(msg) == msg.id # searchId

\* Variant of capReached: the workers are cancelled only past the cap.
capExceeded(ms, max) == Len(ms) > max

\* if (this.allMatches.length >= this.maxResults)
capReached(ms, max) == Len(ms) >= max

\* Variant of allCompleted: the count is compared with the configured
\* workerCount instead of the number of Worker objects.
allCompletedByCount(cw, n) == cw = workerCount

\* if (this.completedWorkers === this.workers.length)
allCompleted(cw, n) == cw = n

\* case 'match'
onMatchMsg(w, msg) ==
  LET ms == Append(allMatches, msg.seed)
  IN /\ allMatches' = ms
     /\ log' = IF callbacks = NoId THEN log ELSE [log EXCEPT ![callbacks].onMatch = @ + 1]
     /\ IF capReached(ms, maxResults) /\ searchId # NoId
        THEN /\ tasks' = cancelPosts(searchId)
             /\ runs' = markCancel(searchId)
        ELSE UNCHANGED <<tasks, runs>>
     /\ UNCHANGED <<searchId, checkedByWorker, foundByWorker, completedWorkers>>

\* case 'progress'
onProgressMsg(w, msg) ==
  /\ checkedByWorker' = [checkedByWorker EXCEPT ![w] = msg.checked]
  /\ foundByWorker' = [foundByWorker EXCEPT ![w] = msg.found]
  /\ log' = IF callbacks = NoId THEN log ELSE [log EXCEPT ![callbacks].onProgress = @ + 1]
  /\ UNCHANGED <<searchId, allMatches, completedWorkers, tasks, runs>>

\* case 'complete'
onCompleteMsg(w, msg) ==
  /\ completedWorkers' = completedWorkers + 1
  /\ IF allCompleted(completedWorkers + 1, workers)
     THEN finishSearch(log, allMatches, maxResults, checkedByWorker, callbacks)
     ELSE UNCHANGED <<allMatches, log, searchId>>
  /\ UNCHANGED <<checkedByWorker, foundByWorker, tasks, runs>>

\* case 'error'
onErrorMsg(w, msg) ==
  /\ log' = IF callbacks = NoId THEN log ELSE [log EXCEPT ![callbacks].onError = @ + 1]
  /\ UNCHANGED <<searchId, allMatches, checkedByWorker, foundByWorker, completedWorkers,
                 tasks, runs>>

\* The fields a dispatched message can change.
msgVars == <<searchId, allMatches, checkedByWorker, foundByWorker, completedWorkers,
             tasks, runs, log, readyWorkers>>

\* worker.onmessage as installed by setupWorkerHandlers().
searchHandler(w, msg) ==
  IF msg.type = "ready" THEN UNCHANGED msgVars
  ELSE IF stale(msg) THEN UNCHANGED msgVars
  ELSE /\ CASE msg.type = "match" -> onMatchMsg(w, msg)
            [] msg.type = "progress" -> onProgressMsg(w, msg)
            [] msg.type = "complete" -> onCompleteMsg(w, msg)
            [] msg.type = "error" -> onErrorMsg(w, msg)
       /\ UNCHANGED readyWorkers

\* worker.onmessage as installed by initialize().
initHandler(w, msg) ==
  /\ readyWorkers' = IF msg.type = "ready" THEN readyWorkers \cup {w} ELSE readyWorkers
  /\ UNCHANGED <<searchId, allMatches, checkedByWorker, foundByWorker, completedWorkers,
                 tasks, runs, log>>

\* The main thread dispatches the next message of Worker object w.
PoolReceive(w) ==
  /\ w \in 1..workers
  /\ outbox[w] # <<>>
  /\ handler[w] # "none"
  /\ outbox' = [outbox EXCEPT ![w] = Tail(@)]
  /\ IF handler[w] = "init" THEN initHandler(w, Head(outbox[w]))
     ELSE searchHandler(w, Head(outbox[w]))
  /\ dropped' = IF handler[w] = "search" /\ Head(outbox[w]).type # "ready"
                   /\ stale(Head(outbox[w]))
                THEN dropped \cup {Head(outbox[w]).id} ELSE dropped
  /\ UNCHANGED <<workerCount, initCalled, workers, handler, callbacks, totalSeeds,
                 maxResults, nextId, alive, wasm, currentSearchId, cancelled,
                 stopped, lastCall, evaluated, reported, pureVars, navVars>>

\* initialize(): create the workers and post init to each; the promise it
\* awaits is resolved by the ready messages.
Initialize ==
  /\ ~initCalled
  /\ initCalled' = TRUE
  /\ workers' = workerCount
  /\ alive' = [w \in WorkerIds |-> w <= workerCount]
  /\ handler' = [w \in WorkerIds |-> IF w <= workerCount THEN "init" ELSE handler[w]]
  /\ tasks' = [w \in WorkerIds |-> IF w <= workerCount THEN <<InitReq>> ELSE tasks[w]]
  /\ UNCHANGED <<workerCount, readyWorkers, searchId, callbacks, totalSeeds, maxResults,
                 checkedByWorker, foundByWorker, allMatches, completedWorkers, nextId,
                 wasm, currentSearchId, cancelled, runs, outbox, obsVars, pureVars, navVars>>

\* Variant of notReady: search() also throws while a search is in progress,
\* as it did before it cancelled the running search itself.
notReadyOrBusy(ready, n) == Cardinality(ready) # n \/ searchId # NoId

\* if (this.readyWorkers.size !== this.workers.length) throw
notReady(ready, n) == Cardinality(ready) # n

\* The search() calls explored: on a pool built with one worker every id of
\* SearchIds (searches that overlap and supersede each other), on a pool built
\* with two workers the first id (one search spread over parallel workers).
mayStart == nextId \in SearchIds /\ (workerCount = 1 \/ nextId = 1)

\* search(filter, startSeed, endSeed, maxResults, callbacks)
Search(inp) ==
  LET prev == searchId
      t1 == IF prev # NoId THEN cancelPosts(prev) ELSE tasks
      r1 == IF prev # NoId THEN markCancel(prev) ELSE runs
      st1 == IF prev # NoId THEN stopped \cup {prev} ELSE stopped
      id == nextId
      startSeed == inp.range[1]
      endSeed == inp.range[2]
      posts == [w \in WorkerIds |->
                  IF w <= workers
                  THEN searchPosts(id, inp.filter, startSeed, endSeed, inp.maxResults, workers, w)
                  ELSE <<>>]
      idle == Cardinality({w \in 1..workers : posts[w] = <<>>})
      zero == [w \in WorkerIds |-> 0]
      call == [outcome |-> "none", prev |-> prev,
               prevAtCap |-> prev # NoId /\ capReached(allMatches, maxResults)]
      log1 == [log EXCEPT ![id].cap = inp.maxResults]
  IN /\ mayStart
     /\ stopped' = st1
     /\ runs' = r1
     /\ IF notReady(readyWorkers, workers)
        THEN /\ lastCall' = [call EXCEPT !.outcome = "threw"]
             /\ searchId' = NoId
             /\ callbacks' = IF prev # NoId THEN NoId ELSE callbacks
             /\ tasks' = t1
             /\ UNCHANGED <<handler, totalSeeds, maxResults, checkedByWorker, foundByWorker,
                            allMatches, completedWorkers, nextId, log>>
        ELSE /\ lastCall' = [call EXCEPT !.outcome = "started"]
             /\ nextId' = nextId + 1
             /\ callbacks' = id
             /\ totalSeeds' = endSeed - startSeed + 1
             /\ maxResults' = inp.maxResults
             /\ checkedByWorker' = zero
             /\ foundByWorker' = zero
             /\ handler' = [w \in WorkerIds |-> IF w <= workers THEN "search" ELSE handler[w]]
             /\ tasks' = [w \in WorkerIds |-> t1[w] \o posts[w]]
             /\ completedWorkers' = idle
             /\ IF allCompleted(idle, workers)
                THEN finishSearch(log1, <<>>, inp.maxResults, zero, id)
                ELSE /\ searchId' = id
                     /\ allMatches' = <<>>
                     /\ log' = log1
     /\ UNCHANGED <<workerCount, initCalled, workers, readyWorkers, alive, wasm,
                    currentSearchId, cancelled, outbox, dropped, evaluated, reported,
                    pureVars, navVars>>

\* Variant of Cancel: the cancel messages are posted, but searchId and the
\* callbacks are kept.
CancelPostsOnly ==
  /\ searchId # NoId
  /\ tasks' = cancelPosts(searchId)
  /\ runs' = markCancel(searchId)
  /\ stopped' = stopped \cup {searchId}
  /\ UNCHANGED <<poolVars, alive, wasm, currentSearchId, cancelled, outbox, log, lastCall,
                 dropped, evaluated, reported, pureVars, navVars>>

\* cancel()
Cancel ==
  /\ searchId # NoId
  /\ tasks' = cancelPosts(searchId)
  /\ runs' = markCancel(searchId)
  /\ searchId' = NoId
  /\ callbacks' = NoId
  /\ stopped' = stopped \cup {searchId}
  /\ UNCHANGED <<workerCount, initCalled, workers, readyWorkers, handler, totalSeeds,
                 maxResults, checkedByWorker, foundByWorker, allMatches, completedWorkers,
                 nextId, alive, wasm, currentSearchId, cancelled, outbox, log, lastCall,
                 dropped, evaluated, reported, pureVars, navVars>>

\* terminate(): the worker threads end, their queued messages are dropped.
Terminate ==
  /\ workers > 0
  /\ alive' = [w \in WorkerIds |-> FALSE]
  /\ tasks' = [w \in WorkerIds |-> <<>>]
  /\ outbox' = [w \in WorkerIds |-> <<>>]
  /\ workers' = 0
  /\ readyWorkers' = {}
  /\ stopped' = IF searchId # NoId THEN stopped \cup {searchId} ELSE stopped
  /\ UNCHANGED <<workerCount, initCalled, handler, searchId, callbacks, totalSeeds,
                 maxResults, checkedByWorker, foundByWorker, allMatches, completedWorkers,
                 nextId, wasm, currentSearchId, cancelled, runs, log, lastCall,
                 dropped, evaluated, reported, pureVars, navVars>>

\* ------------------------------------------------------------ specification
\* The state after new WorkerPool(workerCount).
Init ==
  /\ workerCount \in WorkerCounts
  /\ initCalled = FALSE
  /\ workers = 0
  /\ readyWorkers = {}
  /\ handler = [w \in WorkerIds |-> "none"]
  /\ searchId = NoId
  /\ callbacks = NoId
  /\ totalSeeds = 0
  /\ maxResults = 0
  /\ checkedByWorker = [w \in WorkerIds |-> 0]
  /\ foundByWorker = [w \in WorkerIds |-> 0]
  /\ allMatches = <<>>
  /\ completedWorkers = 0
  /\ nextId = 1
  /\ alive = [w \in WorkerIds |-> FALSE]
  /\ wasm = [w \in WorkerIds |-> FALSE]
  /\ currentSearchId = [w \in WorkerIds |-> NoId]
  /\ cancelled = [w \in WorkerIds |-> FALSE]
  /\ tasks = [w \in WorkerIds |-> <<>>]
  /\ runs = [w \in WorkerIds |-> [id \in SearchIds |-> ReadyRun]]
  /\ outbox = [w \in WorkerIds |-> <<>>]
  /\ log = [id \in SearchIds |-> NoLog]
  /\ stopped = {}
  /\ lastCall = NoCall
  /\ dropped = {}
  /\ evaluated = [id \in SearchIds |-> 0]
  /\ reported = [id \in SearchIds |-> 0]
  /\ pIn = <<>>
  /\ pOut = <<>>
  /\ route = <<>>
  /\ history = [entries |-> <<>>, index |-> 0]
  /\ lastStep = [kind |-> "none"]

Next ==
  \/ Initialize
  \/ \E inp \in SearchInputs : Search(inp)
  \/ Cancel
  \/ Terminate
  \/ \E w \in WorkerIds : \E i \in 1..Len(tasks[w]) : WorkerStep(w, i)
  \/ \E w \in WorkerIds : PoolReceive(w)

Spec == Init /\ [][Next]_vars

\* Every event loop keeps running its queued tasks: a worker thread that has a
\* task runs one, and the main thread dispatches a message that has arrived.
Fairness ==
  \A w \in WorkerIds :
    /\ WF_vars(\E i \in 1..Len(tasks[w]) : WorkerStep(w, i))
    /\ WF_vars(PoolReceive(w))

\* The searches followed to their end under fairness: the search that yields
\* between chunks and reaches the cap while a worker is still running, and the
\* search of one seed that gives the second worker no sub-range and runs to
\* the end of its range.
LiveInputs ==
  { [range |-> <<0, 4>>, filter |-> {2, 3}, maxResults |-> 1],
    [range |-> <<0, 0>>, filter |-> {}, maxResults |-> 1] }

LiveNext ==
  \/ Initialize
  \/ \E inp \in LiveInputs : Search(inp)
  \/ Cancel
  \/ Terminate
  \/ \E w \in WorkerIds : \E i \in 1..Len(tasks[w]) : WorkerStep(w, i)
  \/ \E w \in WorkerIds : PoolReceive(w)

LiveSpec == Init /\ [][LiveNext]_vars /\ Fairness

\* ------------------------------------------- the range partition on its own
\* search() splits [startSeed, endSeed] among n workers: pOut[w] is what it
\* posts to Worker object w.
Partition ==
  \E n \in 1..MaxN, s \in 0..MaxStart, e \in 0..MaxEnd :
    /\ pIn' = <<s, e, n>>
    /\ pOut' = [w \in 1..n |-> searchPosts(1, {}, s, e, 1, n, w)]
    /\ UNCHANGED <<poolVars, workerVars, obsVars, navVars>>

SpecPartition == Init /\ [][Partition]_vars

\* ================================================================== claims
Range(q) == {q[i] : i \in 1..Len(q)}

\* A message of worker w is being dispatched by the handler of
\* setupWorkerHandlers() in this step.
Dispatching(w) ==
  /\ w \in 1..workers
  /\ handler[w] = "search"
  /\ outbox[w] # <<>>
  /\ outbox'[w] = Tail(outbox[w])
  /\ workers' = workers

\* C1: the list passed to onComplete never holds more than maxResults seeds,
\* and holds exactly maxResults seeds whenever the workers together posted at
\* least maxResults match messages for that search.
C1_CompleteListCapped ==
  \A s \in SearchIds :
    log[s].onComplete >= 1 =>
      /\ Len(log[s].delivered) <= log[s].cap
      /\ reported[s] >= log[s].cap => Len(log[s].delivered) = log[s].cap

\* A search whose workers posted more matches than wanted has completed with
\* exactly maxResults seeds.
C1_Witness ==
  \E s \in SearchIds :
    /\ log[s].onComplete = 1
    /\ reported[s] > log[s].cap
    /\ Len(log[s].delivered) = log[s].cap

\* C2: a worker message whose id differs from the pool's searchId is ignored:
\* dispatching it invokes no callback and leaves allMatches, checkedByWorker,
\* foundByWorker and completedWorkers as they were.
C2_StaleIgnored ==
  [][\A w \in WorkerIds :
       (Dispatching(w) /\ Head(outbox[w]).type # "ready" /\ Head(outbox[w]).id # searchId)
         => UNCHANGED <<log, allMatches, checkedByWorker, foundByWorker, completedWorkers>>]_vars

\* A message of a cancelled search was dispatched while a later search was
\* running, and one after cancel() had set searchId to null.
C2_Witness ==
  /\ dropped # {}
  /\ searchId # NoId
  /\ \E s \in dropped : s # searchId /\ s \in stopped
  /\ \E w \in 1..workers : outbox[w] # <<>> /\ Head(outbox[w]).type = "complete"
                            /\ Head(outbox[w]).id # searchId

\* C3: search() called while an earlier search is in progress does not throw
\* because of it: it posts cancel with the earlier id to every worker, discards
\* the earlier callbacks and starts the new search under a fresh id.
C3_SearchSupersedes ==
  /\ [](lastCall.outcome = "threw" => lastCall.prev = NoId)
  /\ [][(searchId # NoId /\ lastCall' # lastCall) =>
          /\ lastCall'.outcome = "started"
          /\ nextId' = nextId + 1
          /\ nextId # searchId
          /\ searchId' \in {nextId, NoId}
          /\ callbacks' = nextId
          /\ searchId \in stopped'
          /\ \A w \in 1..workers :
               /\ Len(tasks'[w]) > Len(tasks[w])
               /\ SubSeq(tasks'[w], 1, Len(tasks[w]) + 1) = Append(tasks[w], CancelReq(searchId))]_vars

\* search() was called in the window after the cap was hit and before the
\* workers had sent complete, and started the new search.
C3_Witness ==
  /\ lastCall.outcome = "started"
  /\ lastCall.prev # NoId
  /\ lastCall.prevAtCap
  /\ searchId # NoId /\ searchId # lastCall.prev

\* C4: when a match message of the current search brings the number of matches
\* to maxResults or more, the pool posts cancel with the current id to every
\* worker in the same step.
C4_CancelAtCap ==
  [][(searchId # NoId /\ Len(allMatches') = Len(allMatches) + 1
        /\ Len(allMatches') >= maxResults)
       => \A w \in 1..workers : tasks'[w] = Append(tasks[w], CancelReq(searchId))]_vars

\* The match that reached the cap has been dispatched on a pool of two workers
\* and the cancel is queued at both.
C4_Witness ==
  /\ workers = 2
  /\ searchId # NoId
  /\ Len(allMatches) = maxResults
  /\ \A w \in 1..workers : tasks[w] # <<>> /\ tasks[w][Len(tasks[w])] = CancelReq(searchId)

Pending(w, s) == \E m \in Range(tasks[w]) : m.type = "search" /\ m.id = s

C7_NoCallbackAfterCancel ==
  [][\A s \in stopped : log'[s] = log[s]]_vars

\* Messages of a cancelled search reached the pool after cancel() and were
\* dropped.
C7_Witness ==
  \E s \in stopped : s \in dropped /\ workers > 0 /\ log[s].onComplete = 0

\* The sub-ranges search() posts for the arguments pIn.
PostedRanges == {<<pOut[w][1].startSeed, pOut[w][1].endSeed>> : w \in {v \in DOMAIN pOut : pOut[v] # <<>>}}

\* C8: for startSeed <= endSeed and n >= 1 workers the posted sub-ranges are
\* non-empty, pairwise disjoint and cover exactly [startSeed, endSeed], and no
\* worker is posted more than one search message.
C8_PartitionExact ==
  (pIn # <<>> /\ pIn[1] <= pIn[2]) =>
    /\ \A w \in DOMAIN pOut : Len(pOut[w]) <= 1
    /\ \A w \in DOMAIN pOut : pOut[w] # <<>> => pOut[w][1].startSeed <= pOut[w][1].endSeed
    /\ \A v, w \in DOMAIN pOut :
         (v # w /\ pOut[v] # <<>> /\ pOut[w] # <<>>) =>
            (pOut[v][1].endSeed < pOut[w][1].startSeed \/ pOut[w][1].endSeed < pOut[v][1].startSeed)
    /\ UNION {r[1]..r[2] : r \in PostedRanges} = pIn[1]..pIn[2]

\* A range split unevenly: some workers are given sub-ranges of different
\* lengths and one is given none.
C8_Witness ==
  /\ pIn # <<>> /\ pIn[1] < pIn[2]
  /\ \E w \in DOMAIN pOut : pOut[w] = <<>>
  /\ \E v, w \in DOMAIN pOut :
       /\ pOut[v] # <<>> /\ pOut[w] # <<>>
       /\ pOut[v][1].endSeed - pOut[v][1].startSeed > pOut[w][1].endSeed - pOut[w][1].startSeed

Posted(w) == IF Len(outbox'[w]) > Len(outbox[w])
             THEN {outbox'[w][i] : i \in (Len(outbox[w]) + 1)..Len(outbox'[w])} ELSE {}

RECURSIVE Accepted(_, _, _)
Accepted(lo, hi, f) ==
  IF lo > hi THEN <<>>
  ELSE (IF lo \in f THEN <<lo>> ELSE <<>>) \o Accepted(lo + 1, hi, f)

IsPrefix(s, t) == Len(s) <= Len(t) /\ s = SubSeq(t, 1, Len(s))

\* The seeds of the match messages of search s among the messages q, in order.
RECURSIVE MatchSeeds(_, _)
MatchSeeds(q, s) ==
  IF q = <<>> THEN <<>>
  ELSE (IF Head(q).type = "match" /\ Head(q).id = s THEN <<Head(q).seed>> ELSE <<>>)
       \o MatchSeeds(Tail(q), s)

\* The messages worker w posts in this step, in order.
PostedSeq(w) == IF Len(outbox'[w]) > Len(outbox[w])
                THEN SubSeq(outbox'[w], Len(outbox[w]) + 1, Len(outbox'[w])) ELSE <<>>

\* C11: the seeds a run of search() has reported are a prefix of the accepted
\* seeds of its range in ascending order, and all of them when the run ended
\* with its range exhausted; each is posted in one match message when it is
\* found, and the complete message carries the same list.
C11_MatchesAscendingPrefix ==
  /\ [](\A w \in WorkerIds : \A s \in SearchIds :
          LET r == runs[w][s]
              all == Accepted(r.startSeed, r.endSeed, r.filter)
          IN r.status # "ready" =>
               /\ IsPrefix(r.matches, all)
               /\ r.exit = "exhausted" => r.matches = all)
  /\ [][\A w \in WorkerIds : \A s \in SearchIds :
          runs'[w][s] # runs[w][s] =>
            /\ runs'[w][s].matches = runs[w][s].matches \o MatchSeeds(PostedSeq(w), s)
            /\ \A m \in Posted(w) :
                 (m.type = "complete" /\ m.id = s) => m.matches = runs'[w][s].matches]_vars

\* One run went through its whole range and reported a seed, another stopped
\* early having reported some but not all of the accepted seeds of its range.
C11_Witness ==
  /\ \E w \in WorkerIds : \E s \in SearchIds :
       runs[w][s].exit = "exhausted" /\ runs[w][s].matches # <<>>
  /\ \E w \in WorkerIds : \E s \in SearchIds :
       LET r == runs[w][s]
       IN /\ r.exit \in {"cancelled", "limit_reached"}
          /\ r.matches # <<>>
          /\ Len(r.matches) < Len(Accepted(r.startSeed, r.endSeed, r.filter))

\* ================================================================== filters
\* ------------------------------------------------------------- day specs
\* The default of getDaysFromSpec's parameter maxDay.
maxDay == 224

\* Array.from({ length: n }, (_, i) => first + i); a length below 0 counts as 0.
ArrayFrom(n, first) == [i \in 1..(IF n > 0 THEN n ELSE 0) |-> first + i - 1]

\* Array.prototype.filter with the predicate keep(_).
FilterSeq(s, keep(_)) == SelectSeq(s, keep)

\* spec.year ?? 1: the field year of a season spec may be absent.
yearOf(spec) == IF "year" \in DOMAIN spec THEN spec.year ELSE 1

seasonStart(spec) == spec.season * 28 + 1 + (yearOf(spec) - 1) * 112

getDaysFromSpec(spec) ==
  CASE spec.type = "exact" -> <<spec.day>>
    [] spec.type = "range" -> ArrayFrom(spec.end - spec.start + 1, spec.start)
    [] spec.type = "season" ->
         LET inRange(d) == d <= maxDay IN FilterSeq(ArrayFrom(28, seasonStart(spec)), inRange)
    [] spec.type = "any" -> ArrayFrom(maxDay, 1)

getDayOfWeek(day) == ((day - 1) % 7) + 1

isCartDay(day) == getDayOfWeek(day) = 5 \/ getDayOfWeek(day) = 7

\* ------------------------------------------------- the predictions of a seed
\* The wasm module is a total function of (seed, day, version); o holds its
\* results for the seed under evaluation as tables over a few days, with a
\* default for every other day.  Luck is counted in tenths.
At(table, day, default) == IF day \in DOMAIN table THEN table[day] ELSE default

get_daily_luck(o, day) == At(o.luck, day, 0)
get_night_event(o, day) == At(o.event, day, 0)
get_traveling_cart(o, day) == At(o.cart, day, <<>>)
get_geode_item(o, n) == <<At(o.geode, n, 0), 1>>
get_dish_of_the_day(o, day) == <<At(o.dish, day, 0), 1>>
get_weather_tomorrow(o, day) == At(o.weather, day, 0)
find_monster_floors(o, day, lo, hi) == {f \in At(o.monster, day, {}) : lo <= f /\ f <= hi}
find_dark_floors(o, day, lo, hi) == {f \in At(o.dark, day, {}) : lo <= f /\ f <= hi}
find_mushroom_floors(o, day, lo, hi) == {f \in At(o.mushroom, day, {}) : lo <= f /\ f <= hi}

\* ------------------------------------------------ worker: evaluateCondition
\* An optional field: its value, or the default when it is absent (??).
OrElse(c, field, default) == IF field \in DOMAIN c THEN c[field] ELSE default

eventMap == [fairy |-> 1, witch |-> 2, meteor |-> 3, ufo |-> 4, owl |-> 5]
weatherMap == [sunny |-> 0, rain |-> 1, windy |-> 2, storm |-> 3, snow |-> 5]

\* for (const day of days) { if (test(day)) return true; } return false;
someDay(days, test(_)) == \E i \in 1..Len(days) : test(days[i])

\* Variant of cartDays: the days are not filtered.
cartDaysAll(days) == days

\* days.filter(d => dow === 5 || dow === 7) with dow = ((d - 1) % 7) + 1.
cartDays(days) ==
  LET keep(d) == LET dow == ((d - 1) % 7) + 1 IN dow = 5 \/ dow = 7
  IN FilterSeq(days, keep)

\* for (let i = 0; i < cart.length; i += 3): slot i holds cart[i], cart[i + 1].
RECURSIVE cartHas(_, _, _)
cartHas(cart, c, i) ==
  IF i >= Len(cart) THEN FALSE
  ELSE IF cart[i + 1] = c.itemId /\ ("maxPrice" \notin DOMAIN c \/ cart[i + 2] <= c.maxPrice)
       THEN TRUE
       ELSE cartHas(cart, c, i + 3)

mineDayPasses(o, c, day) ==
  LET lo == c.floorRange.start
      hi == c.floorRange.end
      p1 == ~(OrElse(c, "noMonsters", FALSE) /\ find_monster_floors(o, day, lo, hi) # {})
      p2 == p1 /\ ~(OrElse(c, "noDark", FALSE) /\ find_dark_floors(o, day, lo, hi) # {})
      mushStart == IF lo > 81 THEN lo ELSE 81
  IN IF p2 /\ OrElse(c, "hasMushroom", FALSE)
     THEN mushStart <= hi /\ find_mushroom_floors(o, day, mushStart, hi) # {}
     ELSE p2

evaluateCondition(o, c) ==
  CASE c.type = "daily_luck" ->
         LET test(day) == /\ get_daily_luck(o, day) >= OrElse(c, "minLuck", -10)
                          /\ get_daily_luck(o, day) <= OrElse(c, "maxLuck", 10)
         IN someDay(getDaysFromSpec(c.daySpec), test)
    [] c.type = "night_event" ->
         LET test(day) == \/ c.eventType = "any" /\ get_night_event(o, day) > 0
                          \/ c.eventType # "any" /\ eventMap[c.eventType] = get_night_event(o, day)
         IN someDay(getDaysFromSpec(c.daySpec), test)
    [] c.type = "cart_item" ->
         LET test(day) == cartHas(get_traveling_cart(o, day), c, 0)
         IN someDay(cartDays(getDaysFromSpec(c.daySpec)), test)
    [] c.type = "geode" -> get_geode_item(o, c.geodeNumber)[1] \in Range(c.targetItems)
    [] c.type = "dish_of_day" ->
         LET test(day) == get_dish_of_the_day(o, day)[1] = c.dishId
         IN someDay(getDaysFromSpec(c.daySpec), test)
    [] c.type = "weather" ->
         LET test(day) == \/ c.weatherType = "any" /\ get_weather_tomorrow(o, day) # 0
                          \/ c.weatherType # "any" /\ weatherMap[c.weatherType] = get_weather_tomorrow(o, day)
         IN someDay(getDaysFromSpec(c.daySpec), test)
    [] c.type = "mine_floor" ->
         LET test(day) == mineDayPasses(o, c, day)
         IN someDay(getDaysFromSpec(c.daySpec), test)
    [] OTHER -> FALSE

\* ---------------------------------------------------- worker: evaluateGroup
\* 'logic' in item
isGroup(item) == "logic" \in DOMAIN item

\* evaluateGroup(seed, group, version) on the filter as the page builds it.
RECURSIVE evaluateFilterGroup(_, _)
RECURSIVE allFrom(_, _, _)
RECURSIVE anyFrom(_, _, _)
itemResult(o, item) ==
  IF isGroup(item) THEN evaluateFilterGroup(o, item) ELSE evaluateCondition(o, item)

allFrom(o, items, i) ==
  IF i > Len(items) THEN TRUE
  ELSE IF ~itemResult(o, items[i]) THEN FALSE ELSE allFrom(o, items, i + 1)

anyFrom(o, items, i) ==
  IF i > Len(items) THEN FALSE
  ELSE IF itemResult(o, items[i]) THEN TRUE ELSE anyFrom(o, items, i + 1)

evaluateFilterGroup(o, group) ==
  IF Len(group.conditions) = 0 THEN TRUE
  ELSE IF group.logic = "and" THEN allFrom(o, group.conditions, 1)
  ELSE anyFrom(o, group.conditions, 1)

\* ------------------------------------------------------ filterToSearchJson
\* Math.min(...days) and Math.max(...days) of a non-empty array.
LeastOf(S) == CHOOSE d \in S : \A e \in S : d <= e
MinOf(days) == LeastOf(Range(days))
MaxOf(days) == -LeastOf({-d : d \in Range(days)})

getDayRange(spec) ==
  LET days == getDaysFromSpec(spec)
  IN IF Len(days) = 0 THEN [day_start |-> 1, day_end |-> 1]
     ELSE [day_start |-> MinOf(days), day_end |-> MaxOf(days)]

\* A JSON value that may be null: <<>> for null, <<v>> for the value v.
OrNull(c, field) == IF field \in DOMAIN c THEN <<c[field]>> ELSE <<>>

convertCondition(c) ==
  LET r == getDayRange(c.daySpec)
  IN
  CASE c.type = "daily_luck" ->
         [logic |-> "condition", type |-> "daily_luck",
          day_start |-> r.day_start, day_end |-> r.day_end,
          min_luck |-> OrElse(c, "minLuck", -10), max_luck |-> OrElse(c, "maxLuck", 10)]
    [] c.type = "cart_item" ->
         [logic |-> "condition", type |-> "cart_item",
          day_start |-> r.day_start, day_end |-> r.day_end,
          item_id |-> c.itemId, max_price |-> OrNull(c, "maxPrice")]
    [] c.type = "night_event" ->
         [logic |-> "condition", type |-> "night_event",
          day_start |-> r.day_start, day_end |-> r.day_end,
          event_type |-> c.eventType]
    [] c.type = "geode" ->
         [logic |-> "condition", type |-> "geode", geode_number |-> c.geodeNumber,
          geode_type |-> c.geodeType, target_items |-> c.targetItems]
    [] c.type = "dish_of_day" ->
         [logic |-> "condition", type |-> "dish_of_day",
          day_start |-> r.day_start, day_end |-> r.day_end,
          dish_id |-> c.dishId]
    [] c.type = "weather" ->
         [logic |-> "condition", type |-> "weather",
          day_start |-> r.day_start, day_end |-> r.day_end,
          weather_type |-> c.weatherType]
    [] c.type = "mine_floor" ->
         [logic |-> "condition", type |-> "mine_floor",
          day_start |-> r.day_start, day_end |-> r.day_end,
          floor_start |-> c.floorRange.start, floor_end |-> c.floorRange.end,
          no_monsters |-> OrElse(c, "noMonsters", FALSE), no_dark |-> OrElse(c, "noDark", FALSE),
          has_mushroom |-> OrElse(c, "hasMushroom", FALSE)]

RECURSIVE convertGroup(_)
convertGroup(group) ==
  IF Len(group.conditions) = 0
  THEN [logic |-> "and", conditions |-> <<>>]
  ELSE [logic |-> group.logic,
        conditions |-> [i \in 1..Len(group.conditions) |->
                          IF isGroup(group.conditions[i])
                          THEN convertGroup(group.conditions[i])
                          ELSE convertCondition(group.conditions[i])]]

\* The JSON text is represented by the value it denotes.
filterToSearchJson(filter) == convertGroup(filter)

\* ------------------------------------- search kernel: evaluation of the JSON
\* The evaluator of the wasm module, from section 4.8 of the specification.
kernelCartHas(cart, j) ==
  \E k \in 0..((Len(cart) \div 3) - 1) :
    /\ cart[3 * k + 1] = j.item_id
    /\ (j.max_price = <<>> \/ cart[3 * k + 2] <= j.max_price[1])

kernelMineDay(o, j, day) ==
  /\ j.no_monsters => find_monster_floors(o, day, j.floor_start, j.floor_end) = {}
  /\ j.no_dark => find_dark_floors(o, day, j.floor_start, j.floor_end) = {}
  /\ j.has_mushroom =>
       find_mushroom_floors(o, day, IF j.floor_start > 81 THEN j.floor_start ELSE 81,
                            j.floor_end) # {}

kernelCondition(o, j) ==
  CASE j.type = "daily_luck" ->
         \E d \in j.day_start..j.day_end :
           j.min_luck <= get_daily_luck(o, d) /\ get_daily_luck(o, d) <= j.max_luck
    [] j.type = "cart_item" ->
         \E d \in j.day_start..j.day_end :
           getDayOfWeek(d) \in {5, 7} /\ kernelCartHas(get_traveling_cart(o, d), j)
    [] j.type = "night_event" ->
         \E d \in j.day_start..j.day_end :
           IF j.event_type = "any" THEN get_night_event(o, d) # 0
           ELSE get_night_event(o, d) = eventMap[j.event_type]
    [] j.type = "geode" -> get_geode_item(o, j.geode_number)[1] \in Range(j.target_items)
    [] j.type = "dish_of_day" ->
         \E d \in j.day_start..j.day_end : get_dish_of_the_day(o, d)[1] = j.dish_id
    [] j.type = "weather" ->
         \E d \in j.day_start..j.day_end :
           IF j.weather_type = "any" THEN get_weather_tomorrow(o, d) # 0
           ELSE get_weather_tomorrow(o, d) = weatherMap[j.weather_type]
    [] j.type = "mine_floor" ->
         \E d \in j.day_start..j.day_end : kernelMineDay(o, j, d)

RECURSIVE kernelNode(_, _)
kernelNode(o, j) ==
  IF j.logic = "condition" THEN kernelCondition(o, j)
  ELSE IF j.logic = "and" THEN \A i \in 1..Len(j.conditions) : kernelNode(o, j.conditions[i])
  ELSE \E i \in 1..Len(j.conditions) : kernelNode(o, j.conditions[i])

\* -------------------------------------------- the evaluators on their own
\* Day specs offered: single days, ranges with and without cart days, ranges
\* whose start lies after their end, seasons of years 1 to 3, any day.
DaySpecs ==
  { [type |-> "exact", day |-> 1], [type |-> "exact", day |-> 5], [type |-> "exact", day |-> 6],
    [type |-> "range", start |-> 5, end |-> 7], [type |-> "range", start |-> 1, end |-> 4],
    [type |-> "range", start |-> 7, end |-> 5], [type |-> "range", start |-> 6, end |-> 5],
    [type |-> "season", season |-> 0, year |-> 1], [type |-> "season", season |-> 1],
    [type |-> "season", season |-> 3, year |-> 2], [type |-> "season", season |-> 0, year |-> 3],
    [type |-> "any"] }

FewDaySpecs ==
  { [type |-> "exact", day |-> 1], [type |-> "range", start |-> 7, end |-> 5], [type |-> "any"] }

\* Carts as the flat array get_traveling_cart returns: id, price, quantity per
\* slot.  Item 266 is the item the cart conditions look for.
CartWithout == <<417, 900, 1, 433, 100, 1>>
CartCheap == <<417, 900, 1, 266, 500, 1>>
CartDear == <<266, 1500, 5, 433, 100, 1>>

\* The other predictions of a seed: nothing anywhere, something on day 1,
\* something on day 225 only.
Quiet == [luck |-> <<>>, event |-> <<>>, geode |-> <<>>, dish |-> <<>>, weather |-> <<>>,
          monster |-> <<>>, dark |-> <<>>, mushroom |-> <<>>]
OnDay(d) == [luck |-> d :> 1, event |-> d :> 1, geode |-> 1 :> 535, dish |-> d :> 194,
             weather |-> d :> 1, monster |-> d :> {5, 85}, dark |-> d :> {85},
             mushroom |-> d :> {85}]

Oracles ==
  { [cart |-> (5 :> c5) @@ (6 :> c6) @@ (7 :> c7), luck |-> r.luck, event |-> r.event,
     geode |-> r.geode, dish |-> r.dish, weather |-> r.weather, monster |-> r.monster,
     dark |-> r.dark, mushroom |-> r.mushroom] :
      c5 \in {CartWithout, CartCheap, CartDear}, c6 \in {CartWithout, CartCheap, CartDear},
      c7 \in {CartWithout, CartDear}, r \in {Quiet, OnDay(1), OnDay(225)} }

Conds ==
  {[type |-> "daily_luck", daySpec |-> ds] : ds \in DaySpecs}
  \cup {[type |-> "daily_luck", daySpec |-> ds, minLuck |-> 1] : ds \in DaySpecs}
  \cup {[type |-> "cart_item", daySpec |-> ds, itemId |-> 266] : ds \in DaySpecs}
  \cup {[type |-> "cart_item", daySpec |-> ds, itemId |-> 266, maxPrice |-> 1000] : ds \in DaySpecs}
  \cup {[type |-> "night_event", daySpec |-> ds, eventType |-> e] :
          ds \in FewDaySpecs, e \in {"any", "fairy", "witch"}}
  \cup {[type |-> "dish_of_day", daySpec |-> ds, dishId |-> 194] : ds \in FewDaySpecs}
  \cup {[type |-> "weather", daySpec |-> ds, weatherType |-> t] :
          ds \in FewDaySpecs, t \in {"any", "rain", "sunny"}}
  \cup {[type |-> "mine_floor", daySpec |-> ds, floorRange |-> [start |-> 1, end |-> 10],
         noMonsters |-> TRUE] : ds \in FewDaySpecs}
  \cup {[type |-> "mine_floor", daySpec |-> ds, floorRange |-> [start |-> 80, end |-> 90],
         noDark |-> b, hasMushroom |-> TRUE] : ds \in FewDaySpecs, b \in BOOLEAN}
  \cup {[type |-> "mine_floor", daySpec |-> ds, floorRange |-> [start |-> 90, end |-> 81],
         hasMushroom |-> TRUE] : ds \in FewDaySpecs}
  \cup {[type |-> "geode", geodeNumber |-> n, geodeType |-> "omni", targetItems |-> <<535, 74>>] :
          n \in {1, 2}}

\* The filters offered to the group evaluators: up to MaxChildren children,
\* each a condition or a group of at most one condition.
MaxChildren == 2

Leaves ==
  { [type |-> "daily_luck", daySpec |-> [type |-> "exact", day |-> 1]],
    [type |-> "cart_item", daySpec |-> [type |-> "exact", day |-> 5], itemId |-> 266],
    [type |-> "night_event", daySpec |-> [type |-> "exact", day |-> 1], eventType |-> "fairy"] }

SeqsUpTo(S, n) == UNION {[1..k -> S] : k \in 0..n}

InnerGroups ==
  {[id |-> "inner", logic |-> l, conditions |-> cs] : l \in {"and", "or"}, cs \in SeqsUpTo(Leaves, 1)}

Groups ==
  {[id |-> "root", logic |-> l, conditions |-> cs] :
     l \in {"and", "or"}, cs \in SeqsUpTo(Leaves \cup InnerGroups, MaxChildren)}

GroupOracles == {o \in Oracles : o.cart[6] = CartWithout /\ o.cart[7] = CartWithout}

\* The worker's evaluator and the conversion applied to the same filter and
\* the same predictions.  Each behaviour evaluates one filter.
Evaluated(filter, o) ==
  [worker |-> evaluateFilterGroup(o, filter),
   json |-> filterToSearchJson(filter),
   kernel |-> kernelNode(o, filterToSearchJson(filter))]

EvalCondition ==
  \E c \in Conds, o \in Oracles :
    LET filter == [id |-> "root", logic |-> "and", conditions |-> <<c>>]
    IN /\ pIn = <<>>
       /\ pIn' = [filter |-> filter, o |-> o]
       /\ pOut' = Evaluated(filter, o)
       /\ UNCHANGED <<poolVars, workerVars, obsVars, navVars>>

EvalGroup ==
  \E g \in Groups, o \in GroupOracles :
    /\ pIn = <<>>
    /\ pIn' = [filter |-> g, o |-> o]
    /\ pOut' = Evaluated(g, o)
    /\ UNCHANGED <<poolVars, workerVars, obsVars, navVars>>

FilterNext == EvalCondition \/ EvalGroup

SpecFilter == Init /\ [][FilterNext]_vars

\* C12: a group without children evaluates to true when its logic is AND and
\* to false when its logic is OR, in the worker's evaluator and for the JSON
\* filterToSearchJson makes of it.
C12_EmptyGroupValue ==
  (pIn # <<>> /\ pIn.filter.conditions = <<>>) =>
    /\ pOut.worker = (pIn.filter.logic = "and")
    /\ pOut.kernel = (pIn.filter.logic = "and")

\* The filter evaluated holds exactly one condition, and that condition has a
\* day spec.
OneDayCondition ==
  /\ pIn # <<>>
  /\ Len(pIn.filter.conditions) = 1
  /\ ~isGroup(pIn.filter.conditions[1])
  /\ "daySpec" \in DOMAIN pIn.filter.conditions[1]

\* C13: a condition whose day range has its start after its end matches no
\* seed, in the worker's evaluator and on the path through getDaysFromSpec and
\* filterToSearchJson.
C13_InvertedRangeEmpty ==
  (/\ OneDayCondition
   /\ pIn.filter.conditions[1].daySpec.type = "range"
   /\ pIn.filter.conditions[1].daySpec.start > pIn.filter.conditions[1].daySpec.end)
    => (~pOut.worker /\ ~pOut.kernel)

\* Some slot of the cart holds the item of condition c at a price the condition
\* allows.
SlotMatches(cart, c) ==
  \E k \in 0..((Len(cart) \div 3) - 1) :
    /\ cart[3 * k + 1] = c.itemId
    /\ ("maxPrice" \in DOMAIN c => cart[3 * k + 2] <= c.maxPrice)

\* C14: a cart_item condition matches a seed exactly when, on some day of its
\* day spec whose day of the week is 5 or 7, a slot of the cart holds the item
\* at an allowed price; a day spec without such a day matches no seed.
C14_CartDaysOnly ==
  (OneDayCondition /\ pIn.filter.conditions[1].type = "cart_item") =>
    LET c == pIn.filter.conditions[1]
        days == {d \in Range(getDaysFromSpec(c.daySpec)) : isCartDay(d)}
    IN /\ pOut.worker = (\E d \in days : SlotMatches(get_traveling_cart(pIn.o, d), c))
       /\ (days = {} => ~pOut.worker)

\* The item is for sale on day 6 only, inside the range 5..7: no match.
C14_Witness ==
  /\ OneDayCondition
  /\ pIn.filter.conditions[1].type = "cart_item"
  /\ pIn.filter.conditions[1].daySpec = [type |-> "range", start |-> 5, end |-> 7]
  /\ SlotMatches(get_traveling_cart(pIn.o, 6), pIn.filter.conditions[1])
  /\ ~SlotMatches(get_traveling_cart(pIn.o, 5), pIn.filter.conditions[1])
  /\ ~SlotMatches(get_traveling_cart(pIn.o, 7), pIn.filter.conditions[1])
  /\ ~pOut.worker

\* ======================================================== URL serialization
\* ------------------------------------------------------- JavaScript values
\* The values JSON.parse can return, and undefined, each tagged with its kind.
\* An object is the sequence of its properties <<key, value>> in insertion
\* order.  A string of characters (a text) is the sequence of its character
\* codes.
JNull == [k |-> "null", v |-> 0]
Undefined == [k |-> "undefined", v |-> 0]
JNum(n) == [k |-> "number", v |-> n]
JStr(s) == [k |-> "string", v |-> s]
JArr(items) == [k |-> "array", v |-> items]
JObj(props) == [k |-> "object", v |-> props]

\* The outcome of a call that may throw.
Thrown == [k |-> "thrown", v |-> 0]
Returned(x) == [k |-> "returned", v |-> x]

\* key in obj, for an object.
HasKey(obj, key) == \E i \in 1..Len(obj.v) : obj.v[i][1] = key

\* obj[key] for a value that is neither null nor undefined: undefined when the
\* value has no property of that name.
Get(obj, key) ==
  IF obj.k = "object" /\ HasKey(obj, key)
  THEN obj.v[CHOOSE i \in 1..Len(obj.v) : obj.v[i][1] = key][2]
  ELSE Undefined

\* An optional field of a condition as a JavaScript value.
NumOrUndefined(c, field) == IF field \in DOMAIN c THEN JNum(c[field]) ELSE Undefined

\* ------------------------------------------------------------- compression
DAY_SPEC_TYPE_MAP == [exact |-> "e", range |-> "r", season |-> "s", any |-> "a"]

CONDITION_TYPE_MAP ==
  [daily_luck |-> "l", night_event |-> "n", cart_item |-> "c", geode |-> "g",
   dish_of_day |-> "d", weather |-> "w", mine_floor |-> "m"]

\* Variant of compressDaySpec: the year of a season is left out.
compressDaySpecNoYear(spec) ==
  LET t == JStr(DAY_SPEC_TYPE_MAP[spec.type])
  IN CASE spec.type = "exact" -> JObj(<< <<"t", t>>, <<"d", JNum(spec.day)>> >>)
       [] spec.type = "range" ->
            JObj(<< <<"t", t>>, <<"s", JNum(spec.start)>>, <<"e", JNum(spec.end)>> >>)
       [] spec.type = "season" -> JObj(<< <<"t", t>>, <<"s", JNum(spec.season)>> >>)
       [] spec.type = "any" -> JObj(<< <<"t", t>> >>)

compressDaySpec(spec) ==
  LET t == JStr(DAY_SPEC_TYPE_MAP[spec.type])
  IN CASE spec.type = "exact" -> JObj(<< <<"t", t>>, <<"d", JNum(spec.day)>> >>)
       [] spec.type = "range" ->
            JObj(<< <<"t", t>>, <<"s", JNum(spec.start)>>, <<"e", JNum(spec.end)>> >>)
       [] spec.type = "season" ->
            JObj(<< <<"t", t>>, <<"s", JNum(spec.season)>>, <<"y", NumOrUndefined(spec, "year")>> >>)
       [] spec.type = "any" -> JObj(<< <<"t", t>> >>)

\* if (value !== undefined) base[key] = value
SetIfDefined(key, value) == IF value.k = "undefined" THEN <<>> ELSE << <<key, value>> >>

\* if (flag) base[key] = 1
SetIfTrue(c, field, key) ==
  IF field \in DOMAIN c /\ c[field] THEN << <<key, JNum(1)>> >> ELSE <<>>

compressCondition(c) ==
  LET base == << <<"t", JStr(CONDITION_TYPE_MAP[c.type])>> >>
      ds == << <<"ds", compressDaySpec(c.daySpec)>> >>
  IN JObj(
     CASE c.type = "daily_luck" ->
            base \o ds \o SetIfDefined("mn", NumOrUndefined(c, "minLuck"))
                 \o SetIfDefined("mx", NumOrUndefined(c, "maxLuck"))
       [] c.type = "night_event" -> base \o ds \o << <<"ev", JStr(c.eventType)>> >>
       [] c.type = "cart_item" ->
            base \o ds \o << <<"i", JNum(c.itemId)>> >>
                 \o SetIfDefined("p", NumOrUndefined(c, "maxPrice"))
       [] c.type = "geode" ->
            base \o << <<"n", JNum(c.geodeNumber)>>, <<"gt", JStr(c.geodeType)>>,
                       <<"ti", JArr([i \in 1..Len(c.targetItems) |-> JNum(c.targetItems[i])])>> >>
       [] c.type = "dish_of_day" -> base \o ds \o << <<"di", JNum(c.dishId)>> >>
       [] c.type = "weather" -> base \o ds \o << <<"wt", JStr(c.weatherType)>> >>
       [] c.type = "mine_floor" ->
            base \o ds \o << <<"fs", JNum(c.floorRange.start)>>, <<"fe", JNum(c.floorRange.end)>> >>
                 \o SetIfTrue(c, "noMonsters", "nm") \o SetIfTrue(c, "noDark", "nd")
                 \o SetIfTrue(c, "hasMushroom", "hm"))

RECURSIVE compressGroup(_)
compressGroup(group) ==
  JObj(<< <<"l", JStr(IF group.logic = "and" THEN "a" ELSE "o")>>,
          <<"c", JArr([i \in 1..Len(group.conditions) |->
                         IF isGroup(group.conditions[i])
                         THEN JObj(<< <<"g", compressGroup(group.conditions[i])>> >>)
                         ELSE compressCondition(group.conditions[i])])>> >>)

\* ------------------------------------------------ JSON.stringify, JSON.parse
\* The character codes of the strings that occur as keys and values.
CharCodes ==
  ("t" :> <<116>>) @@ ("d" :> <<100>>) @@ ("s" :> <<115>>) @@ ("e" :> <<101>>) @@
  ("y" :> <<121>>) @@ ("ds" :> <<100, 115>>) @@ ("mn" :> <<109, 110>>) @@
  ("mx" :> <<109, 120>>) @@ ("ev" :> <<101, 118>>) @@ ("i" :> <<105>>) @@
  ("p" :> <<112>>) @@ ("n" :> <<110>>) @@ ("gt" :> <<103, 116>>) @@
  ("ti" :> <<116, 105>>) @@ ("di" :> <<100, 105>>) @@ ("wt" :> <<119, 116>>) @@
  ("fs" :> <<102, 115>>) @@ ("fe" :> <<102, 101>>) @@ ("nm" :> <<110, 109>>) @@
  ("nd" :> <<110, 100>>) @@ ("hm" :> <<104, 109>>) @@ ("l" :> <<108>>) @@
  ("c" :> <<99>>) @@ ("g" :> <<103>>) @@ ("r" :> <<114>>) @@ ("a" :> <<97>>) @@
  ("w" :> <<119>>) @@ ("m" :> <<109>>) @@ ("o" :> <<111>>) @@ ("x" :> <<120>>) @@
  ("fairy" :> <<102, 97, 105, 114, 121>>) @@ ("witch" :> <<119, 105, 116, 99, 104>>) @@
  ("meteor" :> <<109, 101, 116, 101, 111, 114>>) @@ ("ufo" :> <<117, 102, 111>>) @@
  ("owl" :> <<111, 119, 108>>) @@ ("any" :> <<97, 110, 121>>) @@
  ("geode" :> <<103, 101, 111, 100, 101>>) @@
  ("frozen" :> <<102, 114, 111, 122, 101, 110>>) @@
  ("magma" :> <<109, 97, 103, 109, 97>>) @@ ("omni" :> <<111, 109, 110, 105>>) @@
  ("trove" :> <<116, 114, 111, 118, 101>>) @@
  ("coconut" :> <<99, 111, 99, 111, 110, 117, 116>>) @@
  ("sunny" :> <<115, 117, 110, 110, 121>>) @@ ("rain" :> <<114, 97, 105, 110>>) @@
  ("storm" :> <<115, 116, 111, 114, 109>>) @@ ("windy" :> <<119, 105, 110, 100, 121>>) @@
  ("snow" :> <<115, 110, 111, 119>>) @@
  ("de" :> <<100, 101>>) @@ ("gs" :> <<103, 115>>) @@ ("ge" :> <<103, 101>>) @@
  ("f" :> <<102>>) @@ ("search" :> <<115, 101, 97, 114, 99, 104>>) @@
  ("explore" :> <<101, 120, 112, 108, 111, 114, 101>>) @@
  ("1.3" :> <<49, 46, 51>>) @@ ("1.4" :> <<49, 46, 52>>) @@
  ("1.5" :> <<49, 46, 53>>) @@ ("1.6" :> <<49, 46, 54>>) @@ ("1" :> <<49>>)

\* The decimal digits of an integer.
RECURSIVE Digits(_)
Digits(n) ==
  IF n < 0 THEN <<45>> \o Digits(-n)
  ELSE IF n < 10 THEN <<48 + n>>
  ELSE Digits(n \div 10) \o <<48 + (n % 10)>>

Quoted(s) == <<34>> \o CharCodes[s] \o <<34>>

\* JSON.stringify: a property whose value is undefined is left out.
RECURSIVE stringify(_)
RECURSIVE stringifyItems(_, _)
RECURSIVE stringifyProps(_, _)
stringifyItems(items, i) ==
  IF i > Len(items) THEN <<>>
  ELSE (IF i > 1 THEN <<44>> ELSE <<>>) \o stringify(items[i]) \o stringifyItems(items, i + 1)

stringifyProps(props, i) ==
  IF i > Len(props) THEN <<>>
  ELSE (IF i > 1 THEN <<44>> ELSE <<>>) \o Quoted(props[i][1]) \o <<58>>
       \o stringify(props[i][2]) \o stringifyProps(props, i + 1)

stringify(value) ==
  CASE value.k = "null" -> <<110, 117, 108, 108>>
    [] value.k = "number" -> Digits(value.v)
    [] value.k = "string" -> Quoted(value.v)
    [] value.k = "array" -> <<91>> \o stringifyItems(value.v, 1) \o <<93>>
    [] value.k = "object" ->
         LET defined(prop) == prop[2].k # "undefined"
         IN <<123>> \o stringifyProps(SelectSeq(value.v, defined), 1) \o <<125>>

\* --------------------------------------------------------------- base64url
\* The character of the base64 alphabet for a sextet, and back.
b64Char(s) ==
  CASE s < 26 -> 65 + s
    [] s >= 26 /\ s < 52 -> 97 + (s - 26)
    [] s >= 52 /\ s < 62 -> 48 + (s - 52)
    [] s = 62 -> 43
    [] s = 63 -> 47

IsB64(ch) ==
  \/ ch >= 65 /\ ch <= 90
  \/ ch >= 97 /\ ch <= 122
  \/ ch >= 48 /\ ch <= 57
  \/ ch = 43
  \/ ch = 47

b64Sextet(ch) ==
  CASE ch >= 65 /\ ch <= 90 -> ch - 65
    [] ch >= 97 /\ ch <= 122 -> ch - 97 + 26
    [] ch >= 48 /\ ch <= 57 -> ch - 48 + 52
    [] ch = 43 -> 62
    [] ch = 47 -> 63

\* btoa of a text whose characters are all below 256: three bytes give four
\* characters, and the last group is padded with '='.
btoa(text) ==
  LET n == Len(text)
      byte(i) == IF i <= n THEN text[i] ELSE 0
      sextet(g, j) ==
        CASE j = 0 -> byte(3 * g + 1) \div 4
          [] j = 1 -> (byte(3 * g + 1) % 4) * 16 + byte(3 * g + 2) \div 16
          [] j = 2 -> (byte(3 * g + 2) % 16) * 4 + byte(3 * g + 3) \div 64
          [] j = 3 -> byte(3 * g + 3) % 64
      char(p) ==
        LET g == (p - 1) \div 4
            j == (p - 1) % 4
        IN IF 3 * g + j > n THEN 61 ELSE b64Char(sextet(g, j))
  IN [p \in 1..(4 * ((n + 2) \div 3)) |-> char(p)]

\* atob: up to two '=' at the end of a string whose length is a multiple of 4
\* are dropped; a remaining length of 1 modulo 4 or a character outside the
\* alphabet throws.
atob(s) ==
  LET n == Len(s)
      data == IF n > 0 /\ n % 4 = 0 /\ s[n] = 61
              THEN IF s[n - 1] = 61 THEN SubSeq(s, 1, n - 2) ELSE SubSeq(s, 1, n - 1)
              ELSE s
      m == Len(data)
      sextet(i) == IF i <= m THEN b64Sextet(data[i]) ELSE 0
      byte(q) ==
        LET g == (q - 1) \div 3
            r == (q - 1) % 3
        IN CASE r = 0 -> sextet(4 * g + 1) * 4 + sextet(4 * g + 2) \div 16
             [] r = 1 -> (sextet(4 * g + 2) % 16) * 16 + sextet(4 * g + 3) \div 4
             [] r = 2 -> (sextet(4 * g + 3) % 4) * 64 + sextet(4 * g + 4)
  IN IF m % 4 = 1 \/ \E i \in 1..m : ~IsB64(data[i])
     THEN Thrown
     ELSE Returned([q \in 1..((m * 3) \div 4) |-> byte(q)])

\* s.replace(/from/g, to) for single characters.
replaceAll(s, from, to) == [i \in 1..Len(s) |-> IF s[i] = from THEN to ELSE s[i]]

\* s.replace(/=+$/, '')
stripPadding(s) ==
  LET kept == {i \in 1..Len(s) : s[i] # 61}
  IN SubSeq(s, 1, IF kept = {} THEN 0 ELSE -LeastOf({-i : i \in kept}))

\* while (base64.length % 4) base64 += '='
addPadding(s) == s \o [i \in 1..((4 - (Len(s) % 4)) % 4) |-> 61]

\* btoa(json).replace(/\+/g, '-').replace(/\//g, '_').replace(/=+$/, '')
toBase64Url(text) == stripPadding(replaceAll(replaceAll(btoa(text), 43, 45), 47, 95))

encodeFilter(filter) ==
  IF Len(filter.conditions) = 0 THEN <<>>
  ELSE toBase64Url(stringify(compressGroup(filter)))

\* ----------------------------------------------------------- decompression
DAY_SPEC_TYPE_REVERSE == [e |-> "exact", r |-> "range", s |-> "season", a |-> "any"]

CONDITION_TYPE_REVERSE ==
  [l |-> "daily_luck", n |-> "night_event", c |-> "cart_item", g |-> "geode",
   d |-> "dish_of_day", w |-> "weather", m |-> "mine_floor"]

\* table[code as string]: "" stands for undefined.
Lookup(table, code) ==
  IF code.k = "string" /\ code.v \in DOMAIN table THEN table[code.v] ELSE ""

\* A value read from the compact object as it sits in the result: numbers and
\* strings as themselves, arrays item by item.
RECURSIVE Plain(_)
Plain(value) ==
  CASE value.k \in {"number", "string"} -> value.v
    [] value.k = "array" -> [i \in 1..Len(value.v) |-> Plain(value.v[i])]
    [] OTHER -> value

\* The property name: value of an object literal; a property whose value is
\* undefined is represented by its absence.
Field(name, value) == IF value.k = "undefined" THEN <<>> ELSE name :> Plain(value)

\* value === 1
IsOne(value) == value.k = "number" /\ value.v = 1

\* value === 'a'
IsA(value) == value.k = "string" /\ value.v = "a"

\* Reading obj.t throws when obj is null or undefined.
decompressDaySpec(obj) ==
  IF obj.k \in {"null", "undefined"} THEN Thrown
  ELSE LET type == Lookup(DAY_SPEC_TYPE_REVERSE, Get(obj, "t"))
       IN Returned(
          CASE type = "exact" -> [type |-> "exact"] @@ Field("day", Get(obj, "d"))
            [] type = "range" ->
                 [type |-> "range"] @@ Field("start", Get(obj, "s")) @@ Field("end", Get(obj, "e"))
            [] type = "season" ->
                 [type |-> "season"] @@ Field("season", Get(obj, "s")) @@ Field("year", Get(obj, "y"))
            [] OTHER -> [type |-> "any"])

decompressCondition(obj) ==
  LET type == Lookup(CONDITION_TYPE_REVERSE, Get(obj, "t"))
      ds == decompressDaySpec(Get(obj, "ds"))
      withDays(rest) ==
        IF ds.k = "thrown" THEN Thrown
        ELSE Returned([type |-> type, daySpec |-> ds.v] @@ rest)
  IN CASE type = "daily_luck" ->
            withDays(Field("minLuck", Get(obj, "mn")) @@ Field("maxLuck", Get(obj, "mx")))
       [] type = "night_event" -> withDays(Field("eventType", Get(obj, "ev")))
       [] type = "cart_item" ->
            withDays(Field("itemId", Get(obj, "i")) @@ Field("maxPrice", Get(obj, "p")))
       [] type = "geode" ->
            Returned([type |-> "geode"] @@ Field("geodeNumber", Get(obj, "n"))
                     @@ Field("geodeType", Get(obj, "gt")) @@ Field("targetItems", Get(obj, "ti")))
       [] type = "dish_of_day" -> withDays(Field("dishId", Get(obj, "di")))
       [] type = "weather" -> withDays(Field("weatherType", Get(obj, "wt")))
       [] type = "mine_floor" ->
            withDays([floorRange |-> Field("start", Get(obj, "fs")) @@ Field("end", Get(obj, "fe")),
                      noMonsters |-> IsOne(Get(obj, "nm")),
                      noDark |-> IsOne(Get(obj, "nd")),
                      hasMushroom |-> IsOne(Get(obj, "hm"))])
       [] OTHER -> Thrown

\* crypto.randomUUID(): an id no group of the encoded filter has.
randomUUID == "uuid"

\* Reading obj.c throws when obj is null or undefined, calling map throws when
\* obj.c is not an array, and 'g' in item throws when item is not an object.
RECURSIVE decompressGroup(_, _)
decompressGroup(obj, id) ==
  IF obj.k \in {"null", "undefined"} THEN Thrown
  ELSE IF Get(obj, "c").k # "array" THEN Thrown
  ELSE LET items == Get(obj, "c").v
           mapped == [i \in 1..Len(items) |->
                        IF items[i].k \notin {"object", "array"} THEN Thrown
                        ELSE IF items[i].k = "object" /\ HasKey(items[i], "g")
                             THEN decompressGroup(Get(items[i], "g"), randomUUID)
                             ELSE decompressCondition(items[i])]
       IN IF \E i \in 1..Len(items) : mapped[i].k = "thrown" THEN Thrown
          ELSE Returned([id |-> IF id = "" THEN randomUUID ELSE id,
                         logic |-> IF IsA(Get(obj, "l")) THEN "and" ELSE "or",
                         conditions |-> [i \in 1..Len(items) |-> mapped[i].v]])

\* ------------------------------------------------------------ decodeFilter
\* The filters and the other documents whose JSON text the model knows.
MaxUrlChildren == 2

UrlConds ==
  Conds
  \cup {[type |-> "daily_luck", daySpec |-> [type |-> "exact", day |-> 1], minLuck |-> -1,
         maxLuck |-> 1]}
  \cup {[type |-> "mine_floor", daySpec |-> [type |-> "exact", day |-> 5],
         floorRange |-> [start |-> 1, end |-> 50], noMonsters |-> a, noDark |-> b,
         hasMushroom |-> c] : a \in BOOLEAN, b \in BOOLEAN, c \in BOOLEAN}

UrlItems ==
  LET luck == [type |-> "daily_luck", daySpec |-> [type |-> "exact", day |-> 1], minLuck |-> 1]
      cart == [type |-> "cart_item", daySpec |-> [type |-> "season", season |-> 0, year |-> 1],
               itemId |-> 266]
  IN { luck, cart,
       [id |-> "inner", logic |-> "or", conditions |-> <<>>],
       [id |-> "inner", logic |-> "and",
        conditions |-> <<cart, [id |-> "deep", logic |-> "or", conditions |-> <<luck>>]>>] }

UrlFilters ==
  {[id |-> "root", logic |-> "and", conditions |-> <<c>>] : c \in UrlConds}
  \cup {[id |-> "root", logic |-> l, conditions |-> cs] :
          l \in {"and", "or"}, cs \in SeqsUpTo(UrlItems, MaxUrlChildren)}

\* JSON documents encodeFilter never produces.
MalformedDocs ==
  LET group(c) == JObj(<< <<"l", JStr("a")>>, <<"c", c>> >>)
      one(item) == group(JArr(<<item>>))
  IN << JNull, JNum(5), JStr("a"), JArr(<<>>), JObj(<<>>),
       JObj(<< <<"c", JArr(<<>>)>> >>),
       JObj(<< <<"l", JStr("a")>> >>),
       group(JNum(5)), group(JStr("a")), group(JNull),
       one(JNum(5)), one(JNull), one(JArr(<<>>)), one(JObj(<<>>)),
       one(JObj(<< <<"t", JStr("x")>> >>)),
       one(JObj(<< <<"t", JNum(5)>> >>)),
       one(JObj(<< <<"t", JStr("l")>> >>)),
       one(JObj(<< <<"t", JStr("l")>>, <<"ds", JNull>> >>)),
       one(JObj(<< <<"t", JStr("l")>>, <<"ds", JNum(5)>> >>)),
       one(JObj(<< <<"t", JStr("c")>>, <<"ds", JObj(<< <<"t", JStr("e")>> >>)>> >>)),
       one(JObj(<< <<"t", JStr("g")>> >>)),
       one(JObj(<< <<"g", JNum(5)>> >>)),
       one(JObj(<< <<"g", JObj(<< <<"c", JArr(<<>>)>> >>)>> >>)) >>

\* JSON.stringify of the compact form of each filter and of each malformed
\* document.
TextOf == [f \in UrlFilters |-> stringify(compressGroup(f))]

MalformedTexts == [i \in DOMAIN MalformedDocs |-> stringify(MalformedDocs[i])]

\* JSON.parse: the document a text denotes; a text that denotes none throws.
JSONparse(text) ==
  IF \E f \in UrlFilters : TextOf[f] = text
  THEN Returned(compressGroup(CHOOSE f \in UrlFilters : TextOf[f] = text))
  ELSE IF \E i \in DOMAIN MalformedDocs : MalformedTexts[i] = text
  THEN Returned(MalformedDocs[CHOOSE i \in DOMAIN MalformedDocs : MalformedTexts[i] = text])
  ELSE Thrown

\* The result is null (JNull) or the filter returned.
decodeFilter(encoded) ==
  IF encoded = <<>> THEN JNull
  ELSE LET base64 == addPadding(replaceAll(replaceAll(encoded, 45, 43), 95, 47))
           json == atob(base64)
           compressed == JSONparse(json.v)
           group == decompressGroup(compressed.v, "")
       IN IF json.k = "thrown" THEN JNull
          ELSE IF compressed.k = "thrown" THEN JNull
          ELSE IF group.k = "thrown" THEN JNull
          ELSE group

\* Texts that are not JSON: ab?  ab>  {  {"l":
NonJsonTexts == { <<97, 98, 63>>, <<97, 98, 62>>, <<123>>, <<123, 34, 108, 34, 58>> }

\* The strings handed to decodeFilter: the empty string, strings that are not
\* base64 (invalid!!!  abcde  YW=j), and the base64url form of texts that are
\* not JSON, of malformed documents and of two filters.
UrlStrings ==
  { <<>>, <<105, 110, 118, 97, 108, 105, 100, 33, 33, 33>>, <<97, 98, 99, 100, 101>>, <<89, 87, 61, 106>> }
  \cup {toBase64Url(text) : text \in NonJsonTexts}
  \cup {toBase64Url(MalformedTexts[i]) : i \in DOMAIN MalformedDocs}
  \cup {encodeFilter([id |-> "root", logic |-> l, conditions |-> <<c>>]) :
          l \in {"and", "or"}, c \in {x \in UrlItems : ~isGroup(x)}}

RoundTrip ==
  \E filter \in UrlFilters :
    /\ pIn = <<>>
    /\ pIn' = [filter |-> filter]
    /\ pOut' = [encoded |-> encodeFilter(filter), decoded |-> decodeFilter(encodeFilter(filter))]
    /\ UNCHANGED <<poolVars, workerVars, obsVars, navVars>>

Decode ==
  \E encoded \in UrlStrings :
    /\ pIn = <<>>
    /\ pIn' = [encoded |-> encoded]
    /\ pOut' = [decoded |-> decodeFilter(encoded)]
    /\ UNCHANGED <<poolVars, workerVars, obsVars, navVars>>

UrlNext == RoundTrip \/ Decode

SpecUrl == Init /\ [][UrlNext]_vars

\* A filter without the ids of its groups.
RECURSIVE SansIds(_)
SansIds(group) ==
  [logic |-> group.logic,
   conditions |-> [i \in 1..Len(group.conditions) |->
                     IF isGroup(group.conditions[i]) THEN SansIds(group.conditions[i])
                     ELSE group.conditions[i]]]

\* A filter in which every mine_floor condition states its three flags: a flag
\* that is absent counts as false.
RECURSIVE FlagsStated(_)
FlagsStated(group) ==
  [group EXCEPT !.conditions =
     [i \in 1..Len(group.conditions) |->
        LET item == group.conditions[i]
        IN IF isGroup(item) THEN FlagsStated(item)
           ELSE IF item.type # "mine_floor" THEN item
           ELSE [type |-> "mine_floor", daySpec |-> item.daySpec, floorRange |-> item.floorRange,
                 noMonsters |-> OrElse(item, "noMonsters", FALSE),
                 noDark |-> OrElse(item, "noDark", FALSE),
                 hasMushroom |-> OrElse(item, "hasMushroom", FALSE)]]]

\* A non-empty filter has been encoded and decoded.
RoundTripped == pIn # <<>> /\ "filter" \in DOMAIN pIn /\ Len(pIn.filter.conditions) > 0

\* C15 as stated: decodeFilter(encodeFilter(f)) has the logic of f at every
\* group and the conditions of f in the same order with the same field values.
C15_RoundTripExact ==
  RoundTripped =>
    /\ pOut.decoded.k = "returned"
    /\ SansIds(pOut.decoded.v) = SansIds(pIn.filter)

\* C15 amended: decodeFilter(encodeFilter(f)) equals f, apart from the ids,
\* once every absent flag of a mine_floor condition of f is read as false.
C15_RoundTripFlagsStated ==
  RoundTripped =>
    /\ pOut.decoded.k = "returned"
    /\ SansIds(pOut.decoded.v) = SansIds(FlagsStated(pIn.filter))

\* A mine_floor condition without hasMushroom came back with hasMushroom false.
C15_Witness ==
  /\ RoundTripped
  /\ Len(pIn.filter.conditions) = 1
  /\ ~isGroup(pIn.filter.conditions[1])
  /\ pIn.filter.conditions[1].type = "mine_floor"
  /\ "hasMushroom" \notin DOMAIN pIn.filter.conditions[1]
  /\ pOut.decoded.k = "returned"
  /\ pOut.decoded.v.conditions[1].hasMushroom = FALSE
  /\ pOut.decoded.v.conditions[1].noMonsters = TRUE

\* The strings encodeFilter produces for the non-empty filters.
Encodings == {encodeFilter(f) : f \in {g \in UrlFilters : Len(g.conditions) > 0}}

\* C16: decodeFilter returns null for the empty string and for every string
\* that is not the encoding of a filter.
C16_NullUnlessEncoding ==
  (pIn # <<>> /\ "filter" \notin DOMAIN pIn /\ pIn.encoded \notin Encodings)
    => pOut.decoded.k = "null"

\* C17: a condition with a season day spec of season s and year y is converted
\* by filterToSearchJson to day_start = s * 28 + 1 + (y - 1) * 112 and
\* day_end = day_start + 27.
C17_SeasonDayRange ==
  (OneDayCondition /\ pIn.filter.conditions[1].daySpec.type = "season") =>
    LET spec == pIn.filter.conditions[1].daySpec
        first == spec.season * 28 + 1 + (yearOf(spec) - 1) * 112
    IN /\ pOut.json.conditions[1].day_start = first
       /\ pOut.json.conditions[1].day_end = first + 27

\* ============================================================ filterToPanels
\* The panels are modelled without their highlights.
daySpecToRange(spec) ==
  CASE spec.type = "exact" -> [start |-> spec.day, end |-> spec.day]
    [] spec.type = "range" -> [start |-> spec.start, end |-> spec.end]
    [] spec.type = "season" -> [start |-> seasonStart(spec), end |-> seasonStart(spec) + 27]
    [] spec.type = "any" -> [start |-> 1, end |-> 28]

\* node.conditions.flatMap(flattenConditions)
RECURSIVE flattenConditions(_)
RECURSIVE flattenFrom(_, _)
flattenFrom(items, i) ==
  IF i > Len(items) THEN <<>>
  ELSE flattenConditions(items[i]) \o flattenFrom(items, i + 1)

flattenConditions(node) ==
  IF "conditions" \in DOMAIN node THEN flattenFrom(node.conditions, 1) ELSE <<node>>

\* [...ranges].sort((a, b) => a.start - b.start): the sort is stable, a range
\* goes behind the ranges before it that start no later.
insertByStart(sorted, r) ==
  LET k == Cardinality({i \in 1..Len(sorted) : sorted[i].start <= r.start})
  IN SubSeq(sorted, 1, k) \o <<r>> \o SubSeq(sorted, k + 1, Len(sorted))

RECURSIVE sortByStart(_)
sortByStart(ranges) ==
  IF Len(ranges) = 0 THEN <<>>
  ELSE insertByStart(sortByStart(SubSeq(ranges, 1, Len(ranges) - 1)), ranges[Len(ranges)])

\* Variant of mergeFrom: only overlapping ranges are merged.
RECURSIVE mergeFromOverlapping(_, _, _, _)
mergeFromOverlapping(sorted, i, current, result) ==
  IF i > Len(sorted) THEN Append(result, current)
  ELSE LET next == sorted[i]
       IN IF next.start <= current.end
          THEN mergeFromOverlapping(sorted, i + 1,
                                    [start |-> current.start,
                                     end |-> IF current.end >= next.end THEN current.end ELSE next.end],
                                    result)
          ELSE mergeFromOverlapping(sorted, i + 1, next, Append(result, current))

\* The loop of mergeRanges from index i on, with the group being built and the
\* groups pushed so far.
RECURSIVE mergeFrom(_, _, _, _)
mergeFrom(sorted, i, current, result) ==
  IF i > Len(sorted) THEN Append(result, current)
  ELSE LET next == sorted[i]
       IN IF next.start <= current.end + 1
          THEN mergeFrom(sorted, i + 1,
                         [start |-> current.start,
                          end |-> IF current.end >= next.end THEN current.end ELSE next.end],
                         result)
          ELSE mergeFrom(sorted, i + 1, next, Append(result, current))

mergeRanges(ranges) ==
  IF Len(ranges) = 0 THEN <<[start |-> 1, end |-> 28]>>
  ELSE IF Len(ranges) = 1 THEN <<ranges[1]>>
  ELSE mergeFrom(sortByStart(ranges), 2, sortByStart(ranges)[1], <<>>)

\* crypto.randomUUID(): the id of a new panel.
generatePanelId == "uuid"

\* The conditions of one type, in order.
ofType(conditions, type) ==
  LET is(c) == c.type = type IN SelectSeq(conditions, is)

\* The day ranges collected for one condition type.
rangesOf(conditions, type) ==
  [i \in 1..Len(ofType(conditions, type)) |-> daySpecToRange(ofType(conditions, type)[i].daySpec)]

\* if (ranges.length > 0) for (const range of mergeRanges(ranges)) panels.push(...)
dayPanels(conditions, type, panelType) ==
  LET ranges == rangesOf(conditions, type)
  IN IF Len(ranges) > 0
     THEN [i \in 1..Len(mergeRanges(ranges)) |->
             [type |-> panelType, id |-> generatePanelId, dayRange |-> mergeRanges(ranges)[i]]]
     ELSE <<>>

\* The keys of geodesByType in insertion order.
RECURSIVE geodeTypes(_, _)
geodeTypes(geodes, i) ==
  IF i > Len(geodes) THEN <<>>
  ELSE IF \E j \in 1..(i - 1) : geodes[j].geodeType = geodes[i].geodeType
       THEN geodeTypes(geodes, i + 1)
       ELSE <<geodes[i].geodeType>> \o geodeTypes(geodes, i + 1)

geodePanels(conditions) ==
  LET geodes == ofType(conditions, "geode")
      types == geodeTypes(geodes, 1)
      numbers(t) == {geodes[j].geodeNumber : j \in {i \in 1..Len(geodes) : geodes[i].geodeType = t}}
  IN [i \in 1..Len(types) |->
        [type |-> "geodes", id |-> generatePanelId, geodeType |-> types[i],
         geodeRange |-> [start |-> LeastOf(numbers(types[i])),
                         end |-> -LeastOf({-n : n \in numbers(types[i])})]]]

minePanels(conditions) ==
  LET mines == ofType(conditions, "mine_floor")
  IN IF Len(mines) > 0
     THEN <<[type |-> "mine_floors", id |-> generatePanelId,
             day |-> daySpecToRange(mines[1].daySpec).start,
             floorRange |->
               [start |-> LeastOf({mines[i].floorRange.start : i \in 1..Len(mines)}),
                end |-> -LeastOf({-mines[i].floorRange.end : i \in 1..Len(mines)})]]>>
     ELSE <<>>

filterToPanels(filter) ==
  LET conditions == flattenConditions(filter)
  IN IF Len(conditions) = 0 THEN <<>>
     ELSE dayPanels(conditions, "cart_item", "cart")
          \o dayPanels(conditions, "night_event", "night_events")
          \o dayPanels(conditions, "daily_luck", "daily_luck")
          \o dayPanels(conditions, "weather", "weather")
          \o dayPanels(conditions, "dish_of_day", "dish")
          \o geodePanels(conditions)
          \o minePanels(conditions)

\* The filters converted: up to MaxPanelConds children, among them ranges that
\* overlap, touch, lie apart, or have their start after their end.
MaxPanelConds == 3

PanelItems ==
  LET luck(ds) == [type |-> "daily_luck", daySpec |-> ds]
      cart(ds) == [type |-> "cart_item", daySpec |-> ds, itemId |-> 266]
      range(a, b) == [type |-> "range", start |-> a, end |-> b]
  IN { luck(range(1, 10)), luck(range(11, 20)), luck(range(15, 25)),
       luck(range(3, 1)), luck([type |-> "exact", day |-> 3]),
       cart(range(5, 7)),
       [type |-> "geode", geodeNumber |-> 3, geodeType |-> "omni", targetItems |-> <<74>>],
       [type |-> "mine_floor", daySpec |-> range(5, 7), floorRange |-> [start |-> 1, end |-> 10]],
       [id |-> "inner", logic |-> "or",
        conditions |-> <<luck(range(22, 30)), cart([type |-> "exact", day |-> 8])>>] }

ToPanels ==
  \E cs \in SeqsUpTo(PanelItems, MaxPanelConds) :
    LET filter == [id |-> "root", logic |-> "and", conditions |-> cs]
    IN /\ pIn = <<>>
       /\ pIn' = [filter |-> filter]
       /\ pOut' = [panels |-> filterToPanels(filter)]
       /\ UNCHANGED <<poolVars, workerVars, obsVars, navVars>>

SpecPanels == Init /\ [][ToPanels]_vars

\* The panel type made for each day-ranged condition type.
DayPanelTypes ==
  [cart_item |-> "cart", night_event |-> "night_events", daily_luck |-> "daily_luck",
   weather |-> "weather", dish_of_day |-> "dish"]

\* The day ranges of the panels of one type, in order.
PanelRanges(panels, panelType) ==
  LET is(p) == p.type = panelType
  IN [i \in 1..Len(SelectSeq(panels, is)) |-> SelectSeq(panels, is)[i].dayRange]

\* The days a list of ranges covers.
DaysOf(ranges) == UNION {ranges[i].start..ranges[i].end : i \in 1..Len(ranges)}

\* The filter with its conditions in another order.
Reordered(filter) ==
  {[filter EXCEPT !.conditions = [i \in 1..Len(filter.conditions) |-> filter.conditions[p[i]]]] :
     p \in Permutations(1..Len(filter.conditions))}

\* The panels of one day-ranged type are sorted, separated by a gap of at
\* least one day, and cover exactly the days of the conditions' ranges.
SortedApartAndCovering(given, made) ==
  /\ \A i \in 1..(Len(made) - 1) :
       made[i].start <= made[i + 1].start /\ made[i + 1].start > made[i].end + 1
  /\ DaysOf(made) = DaysOf(given)

\* No range of the list has its start after its end.
NoneInverted(ranges) == \A i \in 1..Len(ranges) : ranges[i].start <= ranges[i].end

\* A filter has been converted to panels.
Converted == pIn # <<>> /\ "panels" \in DOMAIN pOut

\* C18 as stated: the panels made for the conditions of one day-ranged type
\* have ranges that are sorted and separated by a gap of at least one day,
\* cover exactly the days of the conditions' ranges, and do not depend on the
\* order of the conditions.
C18_MergedPanels ==
  /\ Converted =>
    \A t \in DOMAIN DayPanelTypes :
      LET given == rangesOf(flattenConditions(pIn.filter), t)
          made == PanelRanges(pOut.panels, DayPanelTypes[t])
      IN SortedApartAndCovering(given, made)
  /\ Converted =>
       \A other \in Reordered(pIn.filter) :
         LET others == filterToPanels(other)
         IN \A t \in DOMAIN DayPanelTypes :
              PanelRanges(others, DayPanelTypes[t]) = PanelRanges(pOut.panels, DayPanelTypes[t])

\* C18 amended: sorted, apart and covering as stated; in another order of the
\* conditions the panels cover the same days, and they are the same panels
\* when no range has its start after its end.
C18_MergedPanelsSameDays ==
  /\ Converted =>
    \A t \in DOMAIN DayPanelTypes :
      LET given == rangesOf(flattenConditions(pIn.filter), t)
          made == PanelRanges(pOut.panels, DayPanelTypes[t])
      IN SortedApartAndCovering(given, made)
  /\ Converted =>
       \A other \in Reordered(pIn.filter) :
         LET others == filterToPanels(other)
         IN \A t \in DOMAIN DayPanelTypes :
              LET given == rangesOf(flattenConditions(pIn.filter), t)
                  made == PanelRanges(pOut.panels, DayPanelTypes[t])
                  remade == PanelRanges(others, DayPanelTypes[t])
              IN /\ DaysOf(remade) = DaysOf(made)
                 /\ NoneInverted(given) => remade = made

\* Three daily_luck ranges given out of order, two of them overlapping, became
\* two panels.
C18_Witness ==
  /\ Converted
  /\ rangesOf(flattenConditions(pIn.filter), "daily_luck")
       = <<[start |-> 15, end |-> 25], [start |-> 11, end |-> 20], [start |-> 3, end |-> 3]>>
  /\ PanelRanges(pOut.panels, "daily_luck") = <<[start |-> 3, end |-> 3], [start |-> 11, end |-> 25]>>

\* ======================================================= URL navigation state
\* ------------------------------------------------------ explore state in 'e'
PANEL_TYPE_MAP ==
  [cart |-> "c", night_events |-> "n", daily_luck |-> "l", weather |-> "w", geodes |-> "g",
   mine_floors |-> "m", dish |-> "d"]

GEODE_TYPE_MAP ==
  [geode |-> "r", frozen |-> "f", magma |-> "m", omni |-> "o", trove |-> "t", coconut |-> "c"]

compressPanel(panel) ==
  LET base == << <<"t", JStr(PANEL_TYPE_MAP[panel.type])>> >>
  IN JObj(CASE panel.type \in {"cart", "night_events", "daily_luck", "weather", "dish"} ->
                 base \o << <<"ds", JNum(panel.dayRange.start)>>,
                            <<"de", JNum(panel.dayRange.end)>> >>
            [] panel.type = "geodes" ->
                 base \o << <<"gt", JStr(GEODE_TYPE_MAP[panel.geodeType])>>,
                            <<"gs", JNum(panel.geodeRange.start)>>,
                            <<"ge", JNum(panel.geodeRange.end)>> >>
            [] panel.type = "mine_floors" ->
                 base \o << <<"d", JNum(panel.day)>>,
                            <<"fs", JNum(panel.floorRange.start)>>,
                            <<"fe", JNum(panel.floorRange.end)>> >>)

\* state is an ExploreState: [seed, panels].
encodeExploreState(state) ==
  IF Len(state.panels) = 0 THEN <<>>
  ELSE LET compressed ==
             JObj(<< <<"p", JArr([i \in 1..Len(state.panels) |-> compressPanel(state.panels[i])])>> >>)
       IN toBase64Url(stringify(compressed))

\* ----------------------------------------------------------- URLSearchParams
\* A URLSearchParams object is its list of <<name, value>> pairs; a value is
\* the sequence of its character codes.
paramsHas(sp, name) == \E i \in 1..Len(sp) : sp[i][1] = name

\* searchParams.get(name) for a name the list has: the first value.
paramsGet(sp, name) == sp[LeastOf({i \in 1..Len(sp) : sp[i][1] = name})][2]

\* searchParams.delete(name): every pair of that name goes.
paramsDelete(sp, name) ==
  LET other(pair) == pair[1] # name
  IN SelectSeq(sp, other)

\* searchParams.set(name, value): the first pair of that name takes the value
\* and the others of that name go; a new name is appended.
paramsSet(sp, name, value) ==
  IF ~paramsHas(sp, name) THEN Append(sp, <<name, value>>)
  ELSE LET first == LeastOf({i \in 1..Len(sp) : sp[i][1] = name})
           marked == [i \in 1..Len(sp) |->
                        IF i = first THEN <<name, value, TRUE>>
                        ELSE <<sp[i][1], sp[i][2], sp[i][1] # name>>]
           kept == SelectSeq(marked, LAMBDA m : m[3])
       IN [i \in 1..Len(kept) |-> <<kept[i][1], kept[i][2]>>]

\* if (encoded) searchParams.set(name, encoded) else searchParams.delete(name)
setOrDelete(searchParams, name, encoded) ==
  IF encoded # <<>> THEN paramsSet(searchParams, name, encoded)
  ELSE paramsDelete(searchParams, name)

\* The blocks of buildSearchParams, one per field of params.
withFilter(searchParams, params) ==
  IF "filter" \in DOMAIN params
  THEN setOrDelete(searchParams, "f", encodeFilter(params.filter))
  ELSE searchParams

withPanels(searchParams, params) ==
  IF "panels" \in DOMAIN params
  THEN setOrDelete(searchParams, "e",
                   encodeExploreState([seed |-> IF "seed" \in DOMAIN params THEN params.seed ELSE 1,
                                       panels |-> params.panels]))
  ELSE searchParams

withSeed(searchParams, params) ==
  IF "seed" \in DOMAIN params THEN paramsSet(searchParams, "seed", Digits(params.seed))
  ELSE searchParams

withVersion(searchParams, params) ==
  IF "version" \in DOMAIN params THEN paramsSet(searchParams, "v", CharCodes[params.version])
  ELSE searchParams

withTab(searchParams, params) ==
  IF "activeTab" \in DOMAIN params THEN paramsSet(searchParams, "tab", CharCodes[params.activeTab])
  ELSE searchParams

\* buildSearchParams, with all parameters dropped instead of copied first.
buildSearchParamsFresh(params, current) ==
  withTab(withVersion(withSeed(withPanels(withFilter(<<>>, params), params), params), params), params)

\* params is a URLStateParams: a field that is undefined is absent. current
\* is get(page).url.searchParams.
buildSearchParams(params, current) ==
  withTab(withVersion(withSeed(withPanels(withFilter(current, params), params), params), params), params)

\* ------------------------------------------------------------------- inputs
createEmptyFilter == [id |-> randomUUID, logic |-> "and", conditions |-> <<>>]

luckCondition ==
  [type |-> "daily_luck", daySpec |-> [type |-> "exact", day |-> 1], minLuck |-> 1]

cartCondition ==
  [type |-> "cart_item", daySpec |-> [type |-> "season", season |-> 0, year |-> 1],
   itemId |-> 266]

luckPanel == [type |-> "daily_luck", id |-> "panel-1", dayRange |-> [start |-> 1, end |-> 28]]

geodePanel ==
  [type |-> "geodes", id |-> "panel-2", geodeType |-> "omni",
   geodeRange |-> [start |-> 1, end |-> 10]]

minePanel ==
  [type |-> "mine_floors", id |-> "panel-3", day |-> 5, floorRange |-> [start |-> 1, end |-> 50]]

\* Records with any subset of the fields of URLStateParams.
OptionalField(name, values) == {<<>>} \cup {name :> v : v \in values}

StateParams ==
  {f @@ p @@ s @@ v @@ t :
     f \in OptionalField("filter",
                         {createEmptyFilter,
                          [createEmptyFilter EXCEPT !.conditions = <<luckCondition>>],
                          [createEmptyFilter EXCEPT !.conditions = <<luckCondition, cartCondition>>]}),
     p \in OptionalField("panels", {<<>>, <<luckPanel>>, <<geodePanel, minePanel>>}),
     s \in OptionalField("seed", {12345}),
     v \in OptionalField("version", {"1.6"}),
     t \in OptionalField("activeTab", {"search", "explore"})}

\* Search strings of the page: none, shared links, and links with a
\* parameter the page does not know or with a repeated parameter.
CurrentParams ==
  LET f == encodeFilter([createEmptyFilter EXCEPT !.conditions = <<cartCondition>>])
      e == encodeExploreState([seed |-> 1, panels |-> <<luckPanel>>])
  IN { <<>>,
       << <<"f", f>> >>,
       << <<"x", CharCodes["1"]>>, <<"f", f>>, <<"seed", Digits(99999)>> >>,
       << <<"seed", Digits(99999)>>, <<"v", CharCodes["1.5"]>> >>,
       << <<"e", e>>, <<"tab", CharCodes["explore"]>>, <<"x", CharCodes["1"]>> >>,
       << <<"seed", Digits(7)>>, <<"e", e>>, <<"seed", Digits(8)>>, <<"f", f>> >> }

Build ==
  \E params \in StateParams, current \in CurrentParams :
    /\ pIn = <<>>
    /\ pIn' = [params |-> params, current |-> current]
    /\ pOut' = [searchParams |-> buildSearchParams(params, current)]
    /\ UNCHANGED <<poolVars, workerVars, obsVars, navVars>>

SpecParams == Init /\ [][Build]_vars

\* The URL parameter each field of URLStateParams is written to.
ParamOf == [filter |-> "f", panels |-> "e", seed |-> "seed", version |-> "v", activeTab |-> "tab"]

Built == pIn # <<>> /\ "current" \in DOMAIN pIn

\* The pairs of sp whose name is none of names, in their order.
Without(sp, names) ==
  LET other(pair) == pair[1] \notin names
  IN SelectSeq(sp, other)

PANEL_TYPE_REVERSE ==
  [c |-> "cart", n |-> "night_events", l |-> "daily_luck", w |-> "weather", g |-> "geodes",
   m |-> "mine_floors", d |-> "dish"]

GEODE_TYPE_REVERSE ==
  [r |-> "geode", f |-> "frozen", m |-> "magma", o |-> "omni", t |-> "trove", c |-> "coconut"]

decompressPanel(obj) ==
  LET type == Lookup(PANEL_TYPE_REVERSE, Get(obj, "t"))
      id == generatePanelId
      range(from, to) == [start |-> Plain(Get(obj, from)), end |-> Plain(Get(obj, to))]
  IN CASE type \in {"cart", "night_events", "daily_luck", "weather", "dish"} ->
            Returned([type |-> type, id |-> id, dayRange |-> range("ds", "de")])
       [] type = "geodes" ->
            Returned([type |-> type, id |-> id,
                      geodeType |-> Lookup(GEODE_TYPE_REVERSE, Get(obj, "gt")),
                      geodeRange |-> range("gs", "ge")])
       [] type = "mine_floors" ->
            Returned([type |-> type, id |-> id, day |-> Plain(Get(obj, "d")),
                      floorRange |-> range("fs", "fe")])
       [] OTHER -> Thrown

\* The panel lists of the links the page is opened with.
LinkedPanels == {<<luckPanel>>, <<geodePanel, minePanel>>}

compressState(panels) ==
  JObj(<< <<"p", JArr([i \in 1..Len(panels) |-> compressPanel(panels[i])])>> >>)

\* JSON.parse of the text of an 'e' parameter: the document a text denotes; a
\* text that denotes none throws.
JSONparseState(text) ==
  IF \E ps \in LinkedPanels : stringify(compressState(ps)) = text
  THEN Returned(compressState(CHOOSE ps \in LinkedPanels : stringify(compressState(ps)) = text))
  ELSE Thrown

\* The result is null (JNull) or the panels returned.
decodeExploreState(encoded) ==
  IF encoded = <<>> THEN JNull
  ELSE LET base64 == addPadding(replaceAll(replaceAll(encoded, 45, 43), 95, 47))
           json == atob(base64)
           compressed == JSONparseState(json.v)
           items == Get(compressed.v, "p").v
           mapped == [i \in 1..Len(items) |-> decompressPanel(items[i])]
       IN IF json.k = "thrown" THEN JNull
          ELSE IF compressed.k = "thrown" THEN JNull
          ELSE IF Get(compressed.v, "p").k # "array" THEN JNull
          ELSE IF \E i \in 1..Len(items) : mapped[i].k = "thrown" THEN JNull
          ELSE Returned([i \in 1..Len(items) |-> mapped[i].v])

\* parseInt(text, 10) of a text without sign or leading blanks: the number of
\* its leading digits, NaN (JNull here) when it has none.
RECURSIVE digitsValue(_, _, _)
digitsValue(text, i, acc) ==
  IF i > Len(text) \/ text[i] \notin 48..57 THEN acc
  ELSE digitsValue(text, i + 1, acc * 10 + (text[i] - 48))

parseInt(text) ==
  IF Len(text) = 0 \/ text[1] \notin 48..57 THEN JNull ELSE JNum(digitsValue(text, 1, 0))

getFilterFromURL(search) ==
  IF ~paramsHas(search, "f") \/ paramsGet(search, "f") = <<>> THEN JNull
  ELSE decodeFilter(paramsGet(search, "f"))

getExploreFromURL(search) ==
  IF ~paramsHas(search, "e") \/ paramsGet(search, "e") = <<>> THEN JNull
  ELSE decodeExploreState(paramsGet(search, "e"))

\* isNaN(seed) ? null : seed
getSeedFromURL(search) ==
  IF ~paramsHas(search, "seed") \/ paramsGet(search, "seed") = <<>> THEN JNull
  ELSE parseInt(paramsGet(search, "seed"))

Versions == {"1.3", "1.4", "1.5", "1.6"}

getVersionFromURL(search) ==
  IF ~paramsHas(search, "v") \/ paramsGet(search, "v") = <<>> THEN JNull
  ELSE IF \E v \in Versions : CharCodes[v] = paramsGet(search, "v")
  THEN JStr(CHOOSE v \in Versions : CharCodes[v] = paramsGet(search, "v"))
  ELSE JNull

\* ------------------------------------------------------------- the component
createDefaultExploreState ==
  [seed |-> 1,
   panels |-> << [type |-> "daily_luck", id |-> generatePanelId, dayRange |-> [start |-> 1, end |-> 14]],
                 [type |-> "weather", id |-> generatePanelId, dayRange |-> [start |-> 1, end |-> 28]],
                 [type |-> "night_events", id |-> generatePanelId, dayRange |-> [start |-> 1, end |-> 28]],
                 [type |-> "cart", id |-> generatePanelId, dayRange |-> [start |-> 1, end |-> 28]] >>]

\* The variables of the component as their declarations initialise them.
\* notifies tells whether the FilterBuilder mounted calls the
\* onMeaningfulChange it is given: the page hands it onFilterMeaningfulChange,
\* while FilterBuilder.svelte declares no such property and hands none to
\* FilterGroup.
Declared ==
  [filter |-> createEmptyFilter, explorePanels |-> createDefaultExploreState.panels,
   seed |-> 12345, gameVersion |-> "1.6", activeTab |-> "search",
   isRestoringFromURL |-> FALSE, hasNavigated |-> FALSE, notifies |-> FALSE]

\* onMount: the state the landing URL carries is loaded.
onMount(r, search) ==
  LET urlSeed == getSeedFromURL(search)
      urlVersion == getVersionFromURL(search)
      urlFilter == getFilterFromURL(search)
      urlPanels == getExploreFromURL(search)
  IN [r EXCEPT
        !.seed = IF urlSeed.k # "null" THEN urlSeed.v ELSE @,
        !.gameVersion = IF urlVersion.k # "null" THEN urlVersion.v ELSE @,
        !.filter = IF urlFilter.k # "null" THEN urlFilter.v ELSE @,
        !.explorePanels = IF urlPanels.k # "null" THEN urlPanels.v ELSE @,
        !.activeTab = IF urlPanels.k # "null" THEN "explore"
                      ELSE IF urlFilter.k # "null" THEN "search" ELSE @]

\* ---------------------------------------------------------- session history
\* page.state of an entry: the keys of the object and its defined fields.
\* The first entry of a document has the empty object.
NoState == [keys |-> {}, defined |-> <<>>]

\* The object pushURLState and replaceURLState hand over: all five keys, the
\* fields of params that are defined copied through JSON.
StateObject(params) ==
  [keys |-> {"filter", "panels", "seed", "version", "activeTab"}, defined |-> params]

\* pushState(url, state): the entries after the current one are dropped.
\* history.shallow tells whether page.url stays what the document was loaded
\* with or follows the URL pushed.
pushState(h, url, state) ==
  [h EXCEPT !.entries = Append(SubSeq(h.entries, 1, h.index), [url |-> url, state |-> state]),
            !.index = h.index + 1,
            !.pageUrl = IF h.shallow THEN @ ELSE url]

\* replaceState(url, state): the current entry is overwritten.
replaceState(h, url, state) ==
  [h EXCEPT !.entries[h.index] = [url |-> url, state |-> state],
            !.pageUrl = IF h.shallow THEN @ ELSE url]

pushURLState(h, params) ==
  pushState(h, buildSearchParams(params, h.pageUrl), StateObject(params))

replaceURLState(h, params) ==
  replaceState(h, buildSearchParams(params, h.pageUrl), StateObject(params))

\* The $effect on page.state, run after page.state has become state.
restore(r, state) ==
  IF state.keys # {}
  THEN [r EXCEPT !.isRestoringFromURL = FALSE,
                 !.hasNavigated = TRUE,
                 !.filter = IF "filter" \in DOMAIN state.defined THEN state.defined.filter ELSE @,
                 !.explorePanels = IF "panels" \in DOMAIN state.defined
                                   THEN state.defined.panels ELSE @,
                 !.seed = IF "seed" \in DOMAIN state.defined THEN state.defined.seed ELSE @,
                 !.gameVersion = IF "version" \in DOMAIN state.defined
                                 THEN state.defined.version ELSE @,
                 !.activeTab = IF "activeTab" \in DOMAIN state.defined
                               THEN state.defined.activeTab ELSE @]
  ELSE IF r.hasNavigated
  THEN [r EXCEPT !.isRestoringFromURL = FALSE, !.filter = createEmptyFilter,
                 !.activeTab = "search"]
  ELSE r

\* What the claim of undo and redo is about: the filter (without the ids of
\* its groups), the tab and the search string in the address bar.
Shown(r, h) ==
  [filter |-> SansIds(r.filter), activeTab |-> r.activeTab,
   url |-> h.entries[h.index].url]

\* ------------------------------------------------------------------ actions
\* Search strings the page is opened with: none, and links shared from it.
LandingParams ==
  LET f == encodeFilter([createEmptyFilter EXCEPT !.conditions = <<luckCondition>>])
      e == encodeExploreState([seed |-> 1, panels |-> <<luckPanel>>])
  IN { <<>>,
       << <<"f", f>> >>,
       << <<"e", e>>, <<"seed", Digits(7)>>, <<"v", CharCodes["1.5"]>> >> }

MaxEntries == 2

Loaded == history.index > 0

\* The document is loaded from a URL; the component is created and mounted.
Navigate ==
  \E search \in LandingParams, shallow \in BOOLEAN, notifies \in BOOLEAN :
    /\ ~Loaded
    /\ route' = [restore(onMount(Declared, search), NoState) EXCEPT !.notifies = notifies]
    /\ history' = [entries |-> <<[url |-> search, state |-> NoState]>>, index |-> 1,
                   pageUrl |-> search, shallow |-> shallow]
    /\ lastStep' = [kind |-> "load"]
    /\ UNCHANGED <<poolVars, workerVars, obsVars, pureVars>>

\* The step of a handler that has changed the component to r and, when pushed,
\* called pushURLState(params): the $effect runs on the page.state pushed. The
\* history holds at most MaxEntries entries.
Changed(r, pushed, params, kind) ==
  /\ pushed => history.index < MaxEntries
  /\ history' = IF pushed THEN pushURLState(history, params) ELSE history
  /\ route' = IF pushed THEN restore(r, StateObject(params)) ELSE r
  /\ lastStep' = IF pushed /\ kind = "push"
                 THEN [kind |-> "push", before |-> Shown(route, history),
                       after |-> Shown(route', history')]
                 ELSE [kind |-> "other"]
  /\ UNCHANGED <<poolVars, workerVars, obsVars, pureVars>>

\* onFilterMeaningfulChange, called with the component at r.
filterParams(r) == [filter |-> r.filter, activeTab |-> r.activeTab]

exploreParams(r) == [panels |-> r.explorePanels, seed |-> r.seed, activeTab |-> r.activeTab]

\* FilterBuilder's addCondition through bind:filter, then (when the builder
\* notifies) onFilterMeaningfulChange.
AddCondition ==
  \E c \in {luckCondition, cartCondition} :
    /\ Loaded /\ route.activeTab = "search"
    /\ c \notin Range(route.filter.conditions)
    /\ LET r == [route EXCEPT !.filter.conditions = Append(@, c)]
       IN Changed(r, r.notifies /\ ~r.isRestoringFromURL, filterParams(r), "push")

\* FilterGroup's removeCondition(index), then onMeaningfulChange?.().
RemoveCondition ==
  /\ Loaded /\ route.activeTab = "search"
  /\ \E index \in DOMAIN route.filter.conditions :
       LET r == [route EXCEPT !.filter.conditions =
                   [i \in 1..(Len(@) - 1) |-> IF i < index THEN @[i] ELSE @[i + 1]]]
       IN Changed(r, r.notifies /\ ~r.isRestoringFromURL, filterParams(r), "push")

switchToSearch ==
  /\ Loaded /\ route.activeTab # "search"
  /\ LET r == [route EXCEPT !.activeTab = "search"]
     IN Changed(r, ~r.isRestoringFromURL, filterParams(r), "push")

switchToExplore ==
  /\ Loaded /\ route.activeTab # "explore"
  /\ LET r == [route EXCEPT !.activeTab = "explore"]
     IN Changed(r, ~r.isRestoringFromURL, exploreParams(r), "push")

\* handlePanelAdd(panel) from ExploreView.
handlePanelAdd ==
  /\ Loaded /\ route.activeTab = "explore"
  /\ minePanel \notin Range(route.explorePanels)
  /\ LET r == [route EXCEPT !.explorePanels = Append(@, minePanel)]
     IN Changed(r, ~r.isRestoringFromURL, exploreParams(r), "panel")

\* The version select (bind:value={gameVersion}), then onVersionChange.
onVersionChange ==
  \E version \in {"1.5", "1.6"} :
    /\ Loaded /\ version # route.gameVersion
    /\ LET r == [route EXCEPT !.gameVersion = version]
           params == [version |-> r.gameVersion]
       IN /\ history' = replaceURLState(history, params)
          /\ route' = restore(r, StateObject(params))
    /\ lastStep' = [kind |-> "other"]
    /\ UNCHANGED <<poolVars, workerVars, obsVars, pureVars>>

\* history.go(delta) within the document: page.state becomes the state of the
\* entry and the $effect runs.
Go(delta) ==
  /\ history' = [history EXCEPT !.index = @ + delta,
                                !.pageUrl = IF history.shallow THEN @
                                            ELSE history.entries[history.index + delta].url]
  /\ route' = restore(route, history.entries[history.index + delta].state)
  /\ UNCHANGED <<poolVars, workerVars, obsVars, pureVars>>

Back ==
  /\ Loaded /\ history.index > 1
  /\ Go(-1)
  /\ lastStep' = IF lastStep.kind = "push"
                 THEN [kind |-> "back", before |-> lastStep.before, after |-> lastStep.after]
                 ELSE [kind |-> "other"]

Forward ==
  /\ Loaded /\ history.index < Len(history.entries)
  /\ Go(1)
  /\ lastStep' = IF lastStep.kind = "back"
                 THEN [kind |-> "forward", before |-> lastStep.before, after |-> lastStep.after]
                 ELSE [kind |-> "other"]

PageNext ==
  \/ Navigate
  \/ AddCondition
  \/ RemoveCondition
  \/ switchToSearch
  \/ switchToExplore
  \/ handlePanelAdd
  \/ onVersionChange
  \/ Back
  \/ Forward

SpecPage == Init /\ [][PageNext]_vars

\* C19: when Back directly follows a push made by adding or removing a
\* condition or by switching tab, the filter, the tab and the URL are those
\* from before the change; when Forward directly follows that Back, they are
\* those from after the change.
C19_BackForward ==
  /\ lastStep.kind = "back" => Shown(route, history) = lastStep.before
  /\ lastStep.kind = "forward" => Shown(route, history) = lastStep.after

\* ============================================================ game mechanics
\* The golden-value scripts (generate-comprehensive-golden.js and
\* extract-golden-tests.js) run each procedure on a CSRandom of stardew-predictor.
\* A generator is modelled by the stream of samples it returns: draws holds the
\* first samples in thousandths (a sample 0.006 is 6) and the stream repeats
\* them; the n-th call of NextDouble returns NextDouble(draws, n).
NextDouble(draws, n) == draws[((n - 1) % Len(draws)) + 1]

\* rng.Next(lo, hi) on the n-th sample: lo + floor(sample * (hi - lo)).
NextIn(draws, n, lo, hi) == lo + (NextDouble(draws, n) * (hi - lo)) \div 1000

\* a.split('.').map(Number) for the version texts the procedures are given.
versionParts ==
  [v \in {"1.3", "1.4", "1.5", "1.5.3", "1.6"} |->
     CASE v = "1.3" -> <<1, 3>>
       [] v = "1.4" -> <<1, 4>>
       [] v = "1.5" -> <<1, 5>>
       [] v = "1.5.3" -> <<1, 5, 3>>
       [] v = "1.6" -> <<1, 6>>]

\* partsA[i] || 0
partOr0(parts, i) == IF i \in DOMAIN parts THEN parts[i] ELSE 0

RECURSIVE compareParts(_, _, _)
compareParts(partsA, partsB, i) ==
  IF i > Len(partsA) /\ i > Len(partsB) THEN 0
  ELSE IF partOr0(partsA, i) > partOr0(partsB, i) THEN 1
  ELSE IF partOr0(partsA, i) < partOr0(partsB, i) THEN -1
  ELSE compareParts(partsA, partsB, i + 1)

compareSemVer(a, b) == compareParts(versionParts[a], versionParts[b], 1)

\* --------------------------------------------------------------- night event
\* What a night-event procedure returns, with the number of samples it took
\* from the generator and the month and year it computed.
NightResult(event, n, month, year) ==
  [event |-> event, draws |-> n, month |-> month, year |-> year]

\* The tests after meteor with the strange capsule first for every version.
tailTestsCapsuleFirst(version, draws, n, month, year) ==
  IF compareSemVer(version, "1.5") < 0
  THEN IF NextDouble(draws, n + 1) < 10 /\ year > 1 THEN NightResult("capsule", n + 1, month, year)
       ELSE IF NextDouble(draws, n + 2) < 10 THEN NightResult("owl", n + 2, month, year)
       ELSE NightResult("none", n + 2, month, year)
  ELSE IF NextDouble(draws, n + 1) < 8 /\ year > 1 THEN NightResult("capsule", n + 1, month, year)
       ELSE IF NextDouble(draws, n + 2) < 8 THEN NightResult("owl", n + 2, month, year)
       ELSE NightResult("none", n + 2, month, year)

\* The version-dependent tests of the branch below 1.6, after n samples.
tailTests(version, draws, n, month, year) ==
  IF compareSemVer(version, "1.5") < 0
  THEN IF NextDouble(draws, n + 1) < 10 /\ year > 1 THEN NightResult("capsule", n + 1, month, year)
       ELSE IF NextDouble(draws, n + 2) < 10 THEN NightResult("owl", n + 2, month, year)
       ELSE NightResult("none", n + 2, month, year)
  ELSE IF compareSemVer(version, "1.5.3") < 0
  THEN IF NextDouble(draws, n + 1) < 8 /\ year > 1 THEN NightResult("capsule", n + 1, month, year)
       ELSE IF NextDouble(draws, n + 2) < 8 THEN NightResult("owl", n + 2, month, year)
       ELSE NightResult("none", n + 2, month, year)
  ELSE IF NextDouble(draws, n + 1) < 5 THEN NightResult("owl", n + 1, month, year)
       ELSE IF NextDouble(draws, n + 2) < 8 /\ year > 1 THEN NightResult("capsule", n + 2, month, year)
       ELSE NightResult("none", n + 2, month, year)

\* The rolls of a night event once eventDay, month and year are known; the
\* two scripts have the same text here.  In 1.6 the generator is primed with
\* ten samples.
rollNightEvent(version, draws, eventDay, month, year) ==
  IF compareSemVer(version, "1.6") >= 0
  THEN IF NextDouble(draws, 11) < 10 /\ month < 3 THEN NightResult("fairy", 11, month, year)
       ELSE IF NextDouble(draws, 12) < 10 /\ eventDay > 20 THEN NightResult("witch", 12, month, year)
       ELSE IF NextDouble(draws, 13) < 10 /\ eventDay > 5 THEN NightResult("meteor", 13, month, year)
       ELSE IF NextDouble(draws, 14) < 5 THEN NightResult("owl", 14, month, year)
       ELSE IF NextDouble(draws, 15) < 8 /\ year > 1 THEN NightResult("capsule", 15, month, year)
       ELSE NightResult("none", 15, month, year)
  ELSE IF NextDouble(draws, 1) < 10 /\ month < 3 THEN NightResult("fairy", 1, month, year)
       ELSE IF NextDouble(draws, 2) < 10 THEN NightResult("witch", 2, month, year)
       ELSE IF NextDouble(draws, 3) < 10 THEN NightResult("meteor", 3, month, year)
       ELSE tailTests(version, draws, 3, month, year)

\* getNightEvent of generate-comprehensive-golden.js.
getNightEvent_comprehensive(version, draws, day) ==
  IF day + 1 = 30 THEN NightResult("earthquake", 0, 0, 0)
  ELSE rollNightEvent(version, draws, day + 1,
                      (((day + 1) - 1) \div 28) % 4, 1 + ((day + 1) - 1) \div 112)

\* getNightEvent of extract-golden-tests.js.
getNightEvent(version, draws, day) ==
  IF day + 1 = 30 THEN NightResult("earthquake", 0, 0, 0)
  ELSE rollNightEvent(version, draws, day + 1,
                      ((day - 1) \div 28) % 4, 1 + (day - 1) \div 112)

\* Samples below every threshold, between them, and above them all.
DrawValues == {0, 6, 9, 500}
NightPeriod == 5
NightStreams == [1..NightPeriod -> DrawValues]
NightVersions == {"1.3", "1.4", "1.5", "1.5.3", "1.6"}
NightDays == {4, 5, 20, 28, 29, 84, 112, 113}
NightScripts == {"generate-comprehensive-golden.js", "extract-golden-tests.js"}

NightEvent ==
  /\ pIn = <<>>
  /\ \E script \in NightScripts, version \in NightVersions, day \in NightDays, draws \in NightStreams :
    /\ pIn' = [script |-> script, version |-> version, day |-> day, draws |-> draws]
    /\ pOut' = IF script = "extract-golden-tests.js"
               THEN getNightEvent(version, draws, day)
               ELSE getNightEvent_comprehensive(version, draws, day)
    /\ UNCHANGED <<poolVars, workerVars, obsVars, navVars>>

SpecNight == Init /\ [][NightEvent]_vars

NightRolled == pIn # <<>> /\ "script" \in DOMAIN pIn

\* The order in which a version makes its tests.
TestOrder(version) ==
  IF compareSemVer(version, "1.5.3") < 0
  THEN <<"fairy", "witch", "meteor", "capsule", "owl">>
  ELSE <<"fairy", "witch", "meteor", "owl", "capsule">>

\* The samples taken before the first test.
Priming(version) == IF compareSemVer(version, "1.6") >= 0 THEN 10 ELSE 0

\* Test `test` passes on sample d, with the month and year the procedure uses.
TestPasses(test, version, d, ed, month, year) ==
  CASE test = "fairy" -> d < 10 /\ month < 3
    [] test = "witch" -> d < 10 /\ (compareSemVer(version, "1.6") >= 0 => ed > 20)
    [] test = "meteor" -> d < 10 /\ (compareSemVer(version, "1.6") >= 0 => ed > 5)
    [] test = "owl" -> d < (IF compareSemVer(version, "1.5") < 0 THEN 10
                            ELSE IF compareSemVer(version, "1.5.3") < 0 THEN 8 ELSE 5)
    [] test = "capsule" -> d < (IF compareSemVer(version, "1.5") < 0 THEN 10 ELSE 8) /\ year > 1

\* The places in the order of the tests that pass, test i reading sample
\* Priming + i.
PassingTests ==
  {i \in 1..5 : TestPasses(TestOrder(pIn.version)[i], pIn.version,
                           NextDouble(pIn.draws, Priming(pIn.version) + i),
                           pIn.day + 1, pOut.month, pOut.year)}

\* C21: the night event is earthquake, with no sample taken, when day + 1 is
\* 30; otherwise it is the first test that passes in the version's order
\* (fairy, witch, meteor, then capsule before owl below 1.5.3 and owl before
\* capsule from 1.5.3 on) and the samples taken after the priming number the
\* tests reached; it is none, with all five tests reached, when no test passes.
C21_OrderedDecisionList ==
  NightRolled =>
    IF pIn.day + 1 = 30 THEN pOut.event = "earthquake" /\ pOut.draws = 0
    ELSE IF PassingTests = {}
    THEN pOut.event = "none" /\ pOut.draws = Priming(pIn.version) + 5
    ELSE \E k \in PassingTests :
           /\ \A i \in PassingTests : k <= i
           /\ pOut.event = TestOrder(pIn.version)[k]
           /\ pOut.draws = Priming(pIn.version) + k

\* A 1.5.3 night on which both the owl test and the capsule test would pass:
\* the owl is returned after four samples.
C21_Witness ==
  /\ NightRolled
  /\ pIn.version = "1.5.3"
  /\ pOut.event = "owl" /\ pOut.draws = 4
  /\ pOut.year > 1 /\ NextDouble(pIn.draws, 5) < 8

\* C22: every night-event procedure that computes a month and a year computes
\* them from the event day ed = day + 1: month = ((ed - 1) div 28) mod 4 and
\* year = (ed - 1) div 112 + 1.
C22_MonthYearFromEventDay ==
  (NightRolled /\ pOut.event # "earthquake") =>
    /\ pOut.month = (((pIn.day + 1) - 1) \div 28) % 4
    /\ pOut.year = ((pIn.day + 1) - 1) \div 112 + 1

\* ---------------------------------------------------------------- daily luck
\* A call of the generator as the procedure makes it: its method and, for
\* Next, its bounds.
CallNextDouble == <<"NextDouble", 0, 0>>
CallNext(lo, hi) == <<"Next", lo, hi>>

\* localDay > 0 ? ((localDay - 1) % 28) + 1 : 0
dayOfMonth(localDay) == IF localDay > 0 THEN ((localDay - 1) % 28) + 1 ELSE 0

excluded == {346, 196, 216, 224, 206, 395, 217}

\* let dish = rng.Next(194, 240); while (excluded.includes(dish)) ...: the
\* dish kept and the number of samples taken once it is, after n samples.
RECURSIVE pickDish(_, _)
pickDish(draws, n) ==
  IF NextIn(draws, n + 1, 194, 240) \in excluded THEN pickDish(draws, n + 1)
  ELSE [dish |-> NextIn(draws, n + 1, 194, 240), n |-> n + 1]

\* rng.NextDouble() < 0.08 ? 10 : 0 on the n-th sample.
bonusAt(draws, n) == IF NextDouble(draws, n) < 80 THEN 10 ELSE 0

\* What a daily-luck procedure returns (in thousandths), with the dish it
\* selected on the way and the calls it made after the dish was selected.
LuckResult(dish, calls, luckRoll) ==
  [dish |-> dish, calls |-> calls, luck |-> IF luckRoll < 100 THEN luckRoll ELSE 100]

\* The part after the dish selection of getDailyLuck of
\* generate-comprehensive-golden.js; n samples have been taken.
luckAfterDish_comprehensive(draws, dish, n) ==
  LuckResult(dish,
             <<CallNextDouble, CallNext(1, 4 + bonusAt(draws, n + 1)),
               CallNextDouble, CallNextDouble, CallNext(-100, 101)>>,
             NextIn(draws, n + 5, -100, 101))

getDailyLuck_comprehensive(draws, day) ==
  LET picked == pickDish(draws, dayOfMonth(day - 1))
  IN luckAfterDish_comprehensive(draws, picked.dish, picked.n)

\* The part after the dish selection of getDailyLuck of
\* extract-golden-tests.js.
luckAfterDish(draws, dish, n, hasFriends) ==
  IF hasFriends
  THEN LuckResult(dish,
                  <<CallNextDouble, CallNext(1, 4 + bonusAt(draws, n + 1)), CallNextDouble,
                    CallNextDouble, CallNextDouble,
                    CallNextDouble, CallNext(-100, 101)>>,
                  NextIn(draws, n + 7, -100, 101))
  ELSE LuckResult(dish,
                  <<CallNextDouble, CallNext(1, 4 + bonusAt(draws, n + 1)), CallNextDouble,
                    CallNextDouble, CallNext(-100, 101)>>,
                  NextIn(draws, n + 5, -100, 101))

getDailyLuck(draws, day, hasFriends) ==
  LET picked == pickDish(draws, dayOfMonth(day - 1))
  IN luckAfterDish(draws, picked.dish, picked.n, hasFriends)

\* Samples giving dish 194, the excluded dish 196, and the ends and the
\* middle of the ranges; a generator never returns the same sample for ever.
LuckValues == {0, 50, 400, 999}
LuckPeriod == 4
LuckStreams == {s \in [1..LuckPeriod -> LuckValues] : \E i \in 1..LuckPeriod : s[i] # 50}
LuckDays == {1, 2, 3, 29, 30}

DailyLuck ==
  /\ pIn = <<>>
  /\ \E script \in NightScripts, day \in LuckDays, draws \in LuckStreams, hasFriends \in BOOLEAN :
       /\ script = "generate-comprehensive-golden.js" => ~hasFriends
       /\ pIn' = [luckScript |-> script, day |-> day, draws |-> draws, hasFriends |-> hasFriends]
       /\ pOut' = IF script = "extract-golden-tests.js"
                  THEN getDailyLuck(draws, day, hasFriends)
                  ELSE getDailyLuck_comprehensive(draws, day)
       /\ UNCHANGED <<poolVars, workerVars, obsVars, navVars>>

SpecLuck == Init /\ [][DailyLuck]_vars

LuckRolled == pIn # <<>> /\ "luckScript" \in DOMAIN pIn

\* C24: after the dish is selected the daily-luck procedure calls, in order,
\* NextDouble (quantity bonus), Next(1, 4 + bonus), NextDouble once (object
\* constructor) and Next(-100, 101) for the luck roll, and nothing else.
C24_DrawsAfterDish ==
  LuckRolled =>
    \E bonus \in {0, 10} :
      pOut.calls = <<CallNextDouble, CallNext(1, 4 + bonus), CallNextDouble, CallNext(-100, 101)>>

\* ----------------------------------------------------------- traveling cart
\* CART_ROLL_TO_ID_PRE14: index 0 of the array is the item of roll 2.
CART_ROLL_TO_ID_PRE14 ==
  <<
    16, 16, 16, 16, 16, 16, 16, 16, 16, 16, 16, 16, 16, 16, 18, 18, 20, 20, 22, 22, 24, 24, 78,
    78, 78, 78, 78, 78, 78, 78, 78, 78, 78, 78, 78, 78, 78, 78, 78, 78, 78, 78, 78, 78, 78, 78,
    78, 78, 78, 78, 78, 78, 78, 78, 78, 78, 78, 78, 78, 78, 78, 78, 78, 78, 78, 78, 78, 78, 78,
    78, 78, 78, 78, 78, 78, 78, 88, 88, 88, 88, 88, 88, 88, 88, 88, 88, 90, 90, 92, 92, 128,
    128, 128, 128, 128, 128, 128, 128, 128, 128, 128, 128, 128, 128, 128, 128, 128, 128, 128,
    128, 128, 128, 128, 128, 128, 128, 128, 128, 128, 128, 128, 128, 128, 128, 128, 128, 129,
    130, 131, 132, 136, 136, 136, 136, 137, 138, 139, 140, 141, 142, 143, 144, 145, 146, 147,
    148, 149, 150, 151, 154, 154, 154, 155, 156, 164, 164, 164, 164, 164, 164, 164, 164, 165,
    167, 167, 174, 174, 174, 174, 174, 174, 174, 174, 174, 176, 176, 180, 180, 182, 182, 184,
    184, 186, 186, 188, 188, 190, 190, 192, 192, 194, 194, 195, 196, 197, 198, 199, 200, 201,
    202, 203, 204, 205, 206, 207, 208, 209, 210, 211, 212, 213, 214, 215, 216, 218, 218, 219,
    220, 221, 222, 223, 224, 225, 226, 227, 228, 229, 230, 231, 232, 233, 234, 235, 236, 237,
    238, 239, 240, 241, 242, 243, 244, 248, 248, 248, 248, 250, 250, 252, 252, 254, 254, 256,
    256, 257, 258, 259, 260, 262, 262, 264, 264, 266, 266, 268, 268, 270, 270, 272, 272, 274,
    274, 276, 276, 278, 278, 280, 280, 281, 282, 283, 284, 286, 286, 287, 288, 296, 296, 296,
    296, 296, 296, 296, 296, 298, 298, 299, 300, 301, 302, 303, 304, 305, 306, 307, 308, 309,
    310, 311, 322, 322, 322, 322, 322, 322, 322, 322, 322, 322, 322, 323, 324, 325, 328, 328,
    328, 329, 330, 331, 333, 333, 334, 335, 336, 337, 338, 340, 340, 342, 342, 344, 344, 346,
    346, 347, 348, 350, 350, 368, 368, 368, 368, 368, 368, 368, 368, 368, 368, 368, 368, 368,
    368, 368, 368, 368, 368, 369, 370, 371, 372, 376, 376, 376, 376, 378, 378, 380, 380, 382,
    382, 384, 384, 386, 386, 388, 388, 390, 390, 392, 392, 393, 394, 396, 396, 397, 398, 399,
    400, 401, 402, 404, 404, 405, 406, 407, 408, 409, 410, 411, 412, 414, 414, 415, 416, 417,
    418, 420, 420, 421, 422, 424, 424, 425, 426, 427, 428, 429, 430, 431, 432, 433, 436, 436,
    436, 438, 438, 440, 440, 442, 442, 444, 444, 446, 446, 453, 453, 453, 453, 453, 453, 453,
    455, 455, 456, 457, 459, 459, 465, 465, 465, 465, 465, 465, 466, 472, 472, 472, 472, 472,
    472, 473, 474, 475, 476, 477, 478, 479, 480, 481, 482, 483, 484, 485, 486, 487, 488, 489,
    490, 491, 492, 493, 494, 495, 496, 497, 498, 499, 591, 591, 591, 591, 591, 591, 591, 591,
    591, 591, 591, 591, 591, 591, 591, 591, 591, 591, 591, 591, 591, 591, 591, 591, 591, 591,
    591, 591, 591, 591, 591, 591, 591, 591, 591, 591, 591, 591, 591, 591, 591, 591, 591, 591,
    591, 591, 591, 591, 591, 591, 591, 591, 591, 591, 591, 591, 591, 591, 591, 591, 591, 591,
    591, 591, 591, 591, 591, 591, 591, 591, 591, 591, 591, 591, 591, 591, 591, 591, 591, 591,
    591, 591, 591, 591, 591, 591, 591, 591, 591, 591, 591, 591, 593, 593, 595, 595, 597, 597,
    599, 599, 604, 604, 604, 604, 604, 605, 606, 607, 608, 609, 610, 611, 612, 613, 618, 618,
    618, 618, 618, 621, 621, 621, 628, 628, 628, 628, 628, 628, 628, 629, 630, 631, 632, 633,
    634, 635, 636, 637, 638, 648, 648, 648, 648, 648, 648, 648, 648, 648, 648, 649, 651, 651,
    684, 684, 684, 684, 684, 684, 684, 684, 684, 684, 684, 684, 684, 684, 684, 684, 684, 684,
    684, 684, 684, 684, 684, 684, 684, 684, 684, 684, 684, 684, 684, 684, 684, 685, 686, 687,
    691, 691, 691, 691, 692, 693, 694, 695, 698, 698, 698, 699, 700, 701, 702, 703, 704, 705,
    706, 707, 708, 709, 715, 715, 715, 715, 715, 715, 716, 717, 718, 719, 720, 721, 722, 723,
    724, 725, 726, 727, 728, 729, 730, 731, 732, 734, 734, 766, 766, 766, 766, 766, 766, 766,
    766, 766, 766, 766, 766, 766, 766, 766, 766, 766, 766, 766, 766, 766, 766, 766, 766, 766,
    766, 766, 766, 766, 766, 766, 766, 767, 768, 769, 771, 771, 772, 773, 787, 787, 787, 787,
    787, 787, 787, 787, 787, 787, 787, 787, 787, 787, 16, 16, 16
  >>

CART_ITEMS_1_4 ==
  {
    16, 18, 20, 22, 24, 78, 88, 90, 92, 128, 129, 130, 131, 132, 136, 137, 138, 139, 140, 141,
    142, 143, 144, 145, 146, 147, 148, 149, 150, 151, 154, 155, 156, 164, 165, 167, 174, 176,
    180, 182, 184, 186, 188, 190, 192, 194, 195, 196, 197, 198, 199, 200, 201, 202, 203, 204,
    205, 206, 207, 208, 209, 210, 211, 212, 213, 214, 215, 216, 218, 219, 220, 221, 222, 223,
    224, 225, 226, 227, 228, 229, 230, 231, 232, 233, 234, 235, 236, 237, 238, 239, 240, 241,
    242, 243, 244, 248, 250, 251, 252, 253, 254, 256, 257, 258, 259, 260, 262, 264, 266, 268,
    270, 271, 272, 273, 274, 276, 278, 280, 281, 282, 283, 284, 286, 287, 288, 293, 296, 298,
    299, 300, 301, 302, 303, 304, 306, 307, 309, 310, 311, 322, 323, 324, 325, 328, 329, 330,
    331, 333, 334, 335, 336, 337, 338, 340, 342, 344, 346, 347, 348, 350, 368, 369, 370, 371,
    372, 376, 378, 380, 382, 384, 386, 388, 390, 392, 393, 394, 396, 397, 398, 399, 400, 401,
    402, 404, 405, 406, 407, 408, 409, 410, 411, 412, 414, 415, 416, 418, 420, 421, 422, 424,
    425, 426, 427, 428, 429, 430, 431, 432, 433, 436, 438, 440, 442, 444, 446, 453, 455, 456,
    457, 459, 465, 466, 472, 473, 474, 475, 476, 477, 478, 479, 480, 481, 482, 483, 484, 485,
    486, 487, 488, 489, 490, 491, 492, 493, 494, 495, 496, 497, 498, 499, 591, 593, 595, 597,
    599, 604, 605, 606, 607, 608, 609, 610, 611, 612, 613, 614, 618, 621, 628, 629, 630, 631,
    632, 633, 634, 635, 636, 637, 638, 648, 649, 651, 684, 685, 686, 687, 691, 692, 693, 694,
    695, 698, 699, 700, 701, 702, 703, 704, 705, 706, 707, 708, 709, 715, 716, 717, 718, 719,
    720, 721, 722, 723, 724, 725, 726, 727, 728, 729, 730, 731, 732, 733, 734, 766, 767, 768,
    769, 771, 772, 773, 787, 445, 267, 265, 269
  }

\* while (true) { itemId = (itemId + 1) %790; ... break; } without the test
\* of seenItems.
RECURSIVE nextValidAnySeen(_, _)
nextValidAnySeen(itemId, seenItems) ==
  IF ((itemId + 1) % 790) \in CART_ITEMS_1_4
  THEN (itemId + 1) % 790
  ELSE nextValidAnySeen((itemId + 1) % 790, seenItems)

\* while (true) { itemId = (itemId + 1) % 790; if (CART_ITEMS_1_4.has(itemId)
\* && !seenItems.has(itemId)) break; }
RECURSIVE nextValid(_, _)
nextValid(itemId, seenItems) ==
  IF ((itemId + 1) % 790) \in CART_ITEMS_1_4 /\ ((itemId + 1) % 790) \notin seenItems
  THEN (itemId + 1) % 790
  ELSE nextValid((itemId + 1) % 790, seenItems)

Slots == 10

\* The loop over the slots of getCartItemIds below 1.6; a slot takes four
\* samples: the roll of the item, two for the price, one for the quantity.
RECURSIVE cartFrom(_, _, _, _, _)
cartFrom(version, draws, slot, items, seenItems) ==
  IF slot >= Slots THEN items
  ELSE IF compareSemVer(version, "1.4") >= 0
  THEN cartFrom(version, draws, slot + 1,
                Append(items, nextValid(NextIn(draws, 4 * slot + 1, 2, 790), seenItems)),
                seenItems \cup {nextValid(NextIn(draws, 4 * slot + 1, 2, 790), seenItems)})
  ELSE cartFrom(version, draws, slot + 1,
                Append(items, CART_ROLL_TO_ID_PRE14[(NextIn(draws, 4 * slot + 1, 2, 790) - 2) + 1]),
                seenItems)

\* getCartItemIds of extract-golden-tests.js.
getCartItemIds(version, draws) ==
  IF compareSemVer(version, "1.6") >= 0 THEN <<>>
  ELSE cartFrom(version, draws, 0, <<>>, {})

\* getCartItemIds_v14 of extract-cart-mappings.js: the loop of 1.4 and 1.5.
getCartItemIds_v14(draws) == cartFrom("1.4", draws, 0, <<>>, {})

\* Samples whose rolls 2, 14 and 789 all lead to item 16, and one leading to
\* item 787.
CartValues == {0, 16, 995, 999}
CartPeriod == 5
CartStreams == [1..CartPeriod -> CartValues]

CartItems ==
  /\ pIn = <<>>
  /\ \E version \in NightVersions \cup {"v14"}, draws \in CartStreams :
       /\ pIn' = [cartVersion |-> version, draws |-> draws]
       /\ pOut' = [items |-> IF version = "v14" THEN getCartItemIds_v14(draws)
                             ELSE getCartItemIds(version, draws)]
       /\ UNCHANGED <<poolVars, workerVars, obsVars, navVars>>

SpecCart == Init /\ [][CartItems]_vars

CartFilled == pIn # <<>> /\ "cartVersion" \in DOMAIN pIn

\* C23: for versions 1.4 and 1.5 (1.5.3 among them) a cart has 10 item ids,
\* which are pairwise distinct and all members of the 1.4 legal-items set.
C23_CartDistinctLegal ==
  (CartFilled /\ pIn.cartVersion \in {"1.4", "1.5", "1.5.3", "v14"}) =>
    /\ Len(pOut.items) = 10
    /\ \A i, j \in 1..Len(pOut.items) : i # j => pOut.items[i] # pOut.items[j]
    /\ \A i \in 1..Len(pOut.items) : pOut.items[i] \in CART_ITEMS_1_4

\* A 1.5 cart all of whose slots rolled 789: the search wraps around to item
\* 16 for the first slot and goes on to the next free item for the others.
C23_Witness ==
  /\ CartFilled /\ pIn.cartVersion = "1.5"
  /\ \A i \in 1..CartPeriod : pIn.draws[i] = 999
  /\ pOut.items[1] = 16 /\ pOut.items[2] = 18 /\ pOut.items[10] = 128

\* ------------------------------------------------------------ calendar of a day
\* Math.floor((day - 1) / 28) without the % 4.
getSeasonUnwrapped(day) == (day - 1) \div 28

getSeason(day) == ((day - 1) \div 28) % 4

getYear(day) == ((day - 1) \div 112) + 1

MaxCalendarDay == 240

\* The four calendar functions of daySpec.ts applied to one day.
Calendar ==
  /\ pIn = <<>>
  /\ \E day \in 1..MaxCalendarDay :
       /\ pIn' = [calendarDay |-> day]
       /\ pOut' = [dayOfWeek |-> getDayOfWeek(day), cartDay |-> isCartDay(day),
                   season |-> getSeason(day), year |-> getYear(day)]
       /\ UNCHANGED <<poolVars, workerVars, obsVars, navVars>>

SpecCalendar == Init /\ [][Calendar]_vars

CalendarRead == pIn # <<>> /\ "calendarDay" \in DOMAIN pIn

\* C25: for a day >= 1 the day of week is the place of the day in its week of
\* 7 days (1..7), the season is the place (0..3) of its 28-day season in its
\* year, the year is the number of its 112-day year counted from 1, and the
\* day is a cart day exactly when its day of week is 5 or 7.
C25_CalendarOfDay ==
  CalendarRead =>
    /\ pOut.dayOfWeek \in 1..7
    /\ \E week \in 0..MaxCalendarDay : pIn.calendarDay = 7 * week + pOut.dayOfWeek
    /\ pOut.year >= 1 /\ pOut.season \in 0..3
    /\ \E dayOfSeason \in 1..28 :
         pIn.calendarDay = 112 * (pOut.year - 1) + 28 * pOut.season + dayOfSeason
    /\ pOut.cartDay <=> pOut.dayOfWeek \in {5, 7}

\* Day 117, the first Friday of the second year: a cart day in spring.
C25_Witness ==
  /\ CalendarRead /\ pIn.calendarDay = 117
  /\ pOut.dayOfWeek = 5 /\ pOut.cartDay /\ pOut.season = 0 /\ pOut.year = 2

\* --------------------------------------- the filter on its way to the worker
\* The request search() posts to a worker: worker.postMessage({ type, id,
\* filterJson, startSeed, endSeed, maxResults, version }).
postedRequest(id, filter, workerStartSeed, workerEndSeed, max, version) ==
  [type |-> "search", id |-> id, filterJson |-> filterToSearchJson(filter),
   startSeed |-> workerStartSeed, endSeed |-> workerEndSeed, maxResults |-> max,
   version |-> version]

\* msg.filter in the worker's onmessage: <<v>> for the value v of the field,
\* <<>> for undefined when the message has no such field.
readFilter(msg) == IF "filter" \in DOMAIN msg THEN <<msg.filter>> ELSE <<>>

\* evaluateGroup(seed, filter, version) on what was read, for a seed with the
\* predictions o: group.conditions of undefined throws a TypeError.
evaluateRead(o, read) ==
  IF read = <<>> THEN "TypeError"
  ELSE IF evaluateFilterGroup(o, read[1]) THEN "true" ELSE "false"

\* search() of the worker with wasm loaded, up to the end of the evaluation of
\* its first seed.
firstEvaluation(msg, o) ==
  IF msg.startSeed <= msg.endSeed /\ 0 < msg.maxResults
  THEN evaluateRead(o, readFilter(msg))
  ELSE "none"

\* search(filter, 0, 4, max, callbacks, version) on a pool of one worker whose
\* first seed has the predictions o.
HandOver ==
  /\ pIn = <<>>
  /\ \E g \in Groups, o \in GroupOracles, max \in {1, 2}, version \in Versions :
       /\ pIn' = [handed |-> g, o |-> o]
       /\ pOut' = [posted |-> postedRequest(1, g, 0, 4, max, version),
                   first |-> firstEvaluation(postedRequest(1, g, 0, 4, max, version), o)]
       /\ UNCHANGED <<poolVars, workerVars, obsVars, navVars>>

SpecHandOver == Init /\ [][HandOver]_vars

HandedOver == pIn # <<>> /\ "handed" \in DOMAIN pIn

\* C26: the request the pool posts carries the filter given to search() in
\* the field the worker reads, and the worker evaluates that filter for the
\* seed.
C26_FilterReachesWorker ==
  HandedOver =>
    /\ readFilter(pOut.posted) = <<pIn.handed>>
    /\ pOut.first = IF evaluateFilterGroup(pIn.o, pIn.handed) THEN "true" ELSE "false"

\* ------------------------------------------- the pool: results and readiness
\* The seeds of S in ascending order.
RECURSIVE Ascending(_)
Ascending(S) ==
  IF S = {} THEN <<>>
  ELSE LET least == CHOOSE x \in S : \A y \in S : x <= y
       IN <<least>> \o Ascending(S \ {least})

\* The seeds the filter of search s accepts in the sub-ranges its workers were
\* given.
AcceptedOf(s) ==
  UNION {Range(Accepted(runs[w][s].startSeed, runs[w][s].endSeed, runs[w][s].filter)) :
           w \in {v \in WorkerIds : runs[v][s].status # "ready"}}

WorkersReady == workers >= 1 /\ Cardinality(readyWorkers) = workers

\* C30: a call of search() starts a search (takes a new id) only when the
\* pool has at least one worker and all workers are ready; any other call
\* throws and invokes no callback.
C30_ThrowsUnlessReady ==
  [][/\ nextId' # nextId => WorkersReady
     /\ (lastCall' # lastCall /\ ~WorkersReady) =>
          lastCall'.outcome = "threw" /\ log' = log]_vars

\* No dispatched message makes the pool invoke onError for a search: search()
\* posts requests only when every worker has reported ready, a worker reports
\* ready only after it has set wasm, and nothing clears wasm, so the reply
\* 'WASM not loaded' of the worker's search() is never posted.
SearchNeverAnsweredByError ==
  /\ \A s \in SearchIds : log[s].onError = 0
  /\ \A w \in WorkerIds : \A i \in 1..Len(outbox[w]) :
       outbox[w][i].type = "error" => outbox[w][i].id = EmptyId

====
